---- MODULE Spec2Model ----
(***************************************************************************)
(* The hardened request gateway of netlify/functions/translate.js (v7):    *)
(* the in-memory rate limiter, the single-use HMAC token check, the        *)
(* SSRF-safe URL fetcher, the error sanitizer and the handler that         *)
(* orchestrates them, together with the token endpoint (/api/token).       *)
(*                                                                         *)
(* Time is Date.now() in milliseconds; the token code reads it in whole    *)
(* seconds (Math.floor(Date.now() / 1000)).  Strings are TLA+ strings, so  *)
(* startsWith, includes, trim and the host patterns are computed           *)
(* character by character as the JavaScript does.                          *)
(***************************************************************************)
EXTENDS Integers, Sequences, FiniteSets, TLC

VARIABLES
    now,            \* Date.now(), in ms
    ipWindows,      \* the Map ipWindows: fingerprint -> {count, windowStart} | NoRec
    bulk,           \* entries of ipWindows under fingerprints the model does not track
    lastRate,       \* history: the last direct checkRate call, with the entry before and after
    winLog,         \* history: per fingerprint, the results of the calls of its current window
    secret,         \* process.env.TOKEN_SECRET ("" when not configured)
    usedNonces,     \* the Map usedNonces: nonce -> stored expiry (s)
    accepted,       \* history: the tokens verifyToken has returned true for
    lastVerify,     \* history: the last verifyToken call
    apiKey,         \* process.env.MISTRAL_API_KEY ("" when not configured)
    inflight,       \* the handler invocation: its request, its position, its response
    served,         \* history: handler invocations started
    fetchCalls,     \* history: requests fetch() has sent to caller-supplied URLs
    upstreamCalls,  \* history: requests fetch() has sent to MISTRAL_URL
    issued,         \* history: the responses of the token endpoint, with their time
    parked,         \* the invocations suspended at an await while another one runs
    input,          \* the argument of the function under study
    output,         \* its result
    rejected,       \* history: the tokens verifyToken has returned false for
    failed,         \* history: the tokens of invocations that passed verifyToken and failed
    admits          \* history: the times of the admissions of one fingerprint, last window

rateVars == <<ipWindows, bulk, lastRate, winLog>>
tokenVars == <<secret, usedNonces, accepted, lastVerify>>
gateVars == <<apiKey, inflight, served, fetchCalls, upstreamCalls>>
auxVars == <<issued, parked, input, output, rejected, failed, admits>>
vars == <<now, ipWindows, bulk, lastRate, winLog, secret, usedNonces, accepted, lastVerify,
          apiKey, inflight, served, fetchCalls, upstreamCalls, issued, parked, input, output,
          rejected, failed, admits>>

(***************************************************************************)
(* Bounds of the model.                                                    *)
(***************************************************************************)
T0 == 1000000            \* Date.now() when the process starts (ms)
MaxMs == 1               \* 1 ms ticks allowed after each whole window step
MaxWindows == 2          \* the clock stops MaxWindows windows (and MaxMs ms) after T0
MaxOver == 1             \* calls a fingerprint may make beyond RATE_MAX in one window
Background == 498        \* untracked fingerprints already in ipWindows at T0
MaxSec == 1              \* 1 s ticks allowed after each 30 s step
MaxTokenSecs == 61       \* the token clock stops MaxTokenSecs s after T0
MaxAccepted == 2         \* tokens that may be accepted in one run
MaxRequests == 2         \* handler invocations in one run
MaxIssued == 1           \* requests to the token endpoint in one run
MaxHalfSecs == 3         \* 500 ms ticks allowed after each step of one token lifetime
MaxParked == 1           \* invocations suspended while another one runs
MaxRejected == 2         \* rejected presentations kept in the history

(***************************************************************************)
(* Program constants.                                                      *)
(***************************************************************************)
RATE_WINDOW == 60000
RATE_MAX == 8
PRUNE_MIN_SIZE == 500
TOKEN_TTL_SECONDS == 300     \* 5 * 60, the token endpoint
VERIFY_MAX_AHEAD == 310      \* 5 * 60 + 10, verifyToken
NONCE_BUFFER == 30           \* usedNonces.set(nonce, exp + 30)
NONCE_LENGTH == 32

NoRec == [count |-> 0, windowStart |-> -1]   \* ipWindows.get(key) === undefined

(***************************************************************************)
(* Strings.                                                                *)
(***************************************************************************)
StartsWith(s, p) == Len(s) >= Len(p) /\ SubSeq(s, 1, Len(p)) = p

EndsWith(s, p) == Len(s) >= Len(p) /\ SubSeq(s, Len(s) - Len(p) + 1, Len(s)) = p

Includes(s, p) == \E i \in 1..(Len(s) - Len(p) + 1) : SubSeq(s, i, i + Len(p) - 1) = p

(***************************************************************************)
(* hashIp: the first 16 hex digits of SHA-256(ip || "unknown").  The       *)
(* digests of the addresses the model uses are tabulated.                  *)
(***************************************************************************)
Ips == {"203.0.113.7", "198.51.100.9", ""}

hashIp(ip) ==
    LET v == IF ip = "" THEN "unknown" ELSE ip
    IN  CASE v = "203.0.113.7"  -> "fec52565aa0cf18f"
          [] v = "198.51.100.9" -> "2ba3fdf22d357ae9"
          [] v = "unknown"      -> "b23a6a8439c0dde5"

Keys == {hashIp(ip) : ip \in Ips}

RateIps == {"203.0.113.7", ""}

(***************************************************************************)
(* checkRate(ip): the entry is replaced by a fresh window when there is    *)
(* none or the window started more than RATE_WINDOW ms ago; otherwise the  *)
(* count is incremented, also when the call is then denied.                *)
(***************************************************************************)
windowExpired(rec, t) == t - rec.windowStart > RATE_WINDOW

rateAdmitsBelowMax(count) == count < RATE_MAX

rateAdmitsOneMore(count) == count <= RATE_MAX + 1

rateAdmits(count) == count <= RATE_MAX

checkRate(map, ip, t) ==
    LET key == hashIp(ip)
        rec == map[key]
    IN  IF rec = NoRec \/ windowExpired(rec, t)
        THEN [ok |-> TRUE,
              map |-> [map EXCEPT ![key] = [count |-> 1, windowStart |-> t]]]
        ELSE [ok |-> rateAdmits(rec.count + 1),
              map |-> [map EXCEPT ![key].count = rec.count + 1]]

(***************************************************************************)
(* maybePruneRateMap(): nothing below 500 entries; otherwise every window  *)
(* that started before now - 2 * RATE_WINDOW is deleted.  ipWindows.size   *)
(* counts the tracked entries and the untracked ones (bulk).               *)
(***************************************************************************)
mapSize(map, blk) == Cardinality({k \in Keys : map[k] # NoRec}) + blk.n

maybePruneRateMapAlways(map, blk, t) ==
    [map  |-> [k \in Keys |->
                 IF map[k] # NoRec /\ map[k].windowStart < t - RATE_WINDOW * 2
                 THEN NoRec ELSE map[k]],
     bulk |-> IF blk.n > 0 /\ blk.windowStart < t - RATE_WINDOW * 2
              THEN [n |-> 0, windowStart |-> blk.windowStart] ELSE blk]

maybePruneRateMap(map, blk, t) ==
    IF mapSize(map, blk) < PRUNE_MIN_SIZE
    THEN [map |-> map, bulk |-> blk]
    ELSE LET cutoff == t - RATE_WINDOW * 2
         IN  [map  |-> [k \in Keys |->
                          IF map[k] # NoRec /\ map[k].windowStart < cutoff
                          THEN NoRec ELSE map[k]],
              bulk |-> IF blk.n > 0 /\ blk.windowStart < cutoff
                       THEN [n |-> 0, windowStart |-> blk.windowStart] ELSE blk]

(***************************************************************************)
(* Tokens.  A token object is {nonce, exp, sig}; shape tells an object     *)
(* from null/undefined and from a non-object.  The signature is the hex    *)
(* HMAC-SHA256 of "nonce:exp" under the secret, modelled as an injective   *)
(* function of the secret and the payload; a presented signature is a hex  *)
(* string, so the timing-safe comparison of the decoded buffers is true    *)
(* exactly for the expected string (it throws on a length mismatch, which  *)
(* the code turns into false).                                             *)
(***************************************************************************)
TheSecret == "k3y"

Nonce1 == "0123456789abcdef0123456789abcdef"
Nonce2 == "fedcba9876543210fedcba9876543210"
ShortNonce == "0123456789abcdef"

hmac(key, payload) == "hmac(" \o key \o "," \o payload \o ")"

payloadOf(nonce, exp) == nonce \o ":" \o ToString(exp)

Token(nonce, exp, sig) == [shape |-> "object", nonce |-> nonce, exp |-> exp, sig |-> sig]

NullToken == [shape |-> "null", nonce |-> "", exp |-> 0, sig |-> ""]

Signed(nonce, exp) == Token(nonce, exp, hmac(TheSecret, payloadOf(nonce, exp)))

Forged(nonce, exp) == Token(nonce, exp, hmac("guess", payloadOf(nonce, exp)))

nowSec(t) == t \div 1000          \* Math.floor(Date.now() / 1000)

(***************************************************************************)
(* pruneNonces(): deletes the entries whose stored expiry is before now.   *)
(***************************************************************************)
pruneNoncesMs(ledger, t) ==
    [n \in {m \in DOMAIN ledger : ~(ledger[m] < t)} |-> ledger[n]]

pruneNonces(ledger, t) ==
    [n \in {m \in DOMAIN ledger : ~(ledger[m] < nowSec(t))} |-> ledger[n]]

(***************************************************************************)
(* verifyToken(tokenObj): the result and the ledger it leaves.             *)
(***************************************************************************)
expInRangeNoCeiling(exp, t) == ~(exp < nowSec(t))

expInRange(exp, t) == ~(exp < nowSec(t) \/ exp > nowSec(t) + VERIFY_MAX_AHEAD)

verifyTokenNoBypass(ledger, key, tok, t) ==
    LET pruned == pruneNonces(ledger, t)
        no     == [ok |-> FALSE, ledger |-> pruned]
    IN  IF tok.shape # "object" \/ tok.nonce = "" \/ tok.exp = 0 \/ tok.sig = "" THEN no
        ELSE IF Len(tok.nonce) # NONCE_LENGTH \/ ~expInRange(tok.exp, t) THEN no
        ELSE IF tok.nonce \in DOMAIN pruned THEN no
        ELSE IF tok.sig # hmac(key, payloadOf(tok.nonce, tok.exp)) THEN no
        ELSE [ok |-> TRUE, ledger |-> (tok.nonce :> (tok.exp + NONCE_BUFFER)) @@ pruned]

verifyTokenRecordFirst(ledger, key, tok, t) ==
    LET r == verifyTokenNoBypass(ledger, key, tok, t)
    IN  IF r.ok \/ tok.shape # "object" \/ Len(tok.nonce) # NONCE_LENGTH THEN r
        ELSE [ok |-> FALSE, ledger |-> (tok.nonce :> (tok.exp + NONCE_BUFFER)) @@ r.ledger]

verifyTokenNoRecord(ledger, key, tok, t) ==
    [ok |-> verifyTokenNoBypass(ledger, key, tok, t).ok, ledger |-> pruneNonces(ledger, t)]

verifyToken(ledger, key, tok, t) ==
    IF key = "" THEN [ok |-> TRUE, ledger |-> ledger]
    ELSE LET pruned == pruneNonces(ledger, t)
             no     == [ok |-> FALSE, ledger |-> pruned]
         IN  IF tok.shape # "object" THEN no
             ELSE IF tok.nonce = "" \/ tok.exp = 0 \/ tok.sig = "" THEN no
             ELSE IF Len(tok.nonce) # NONCE_LENGTH THEN no
             ELSE IF ~expInRange(tok.exp, t) THEN no
             ELSE IF tok.nonce \in DOMAIN pruned THEN no
             ELSE IF tok.sig # hmac(key, payloadOf(tok.nonce, tok.exp)) THEN no
             ELSE [ok |-> TRUE,
                   ledger |-> (tok.nonce :> (tok.exp + NONCE_BUFFER)) @@ pruned]

NoVerify == [tok |-> NullToken, t |-> -1, ok |-> FALSE, replay |-> FALSE, had |-> FALSE]

(***************************************************************************)
(* More string functions of the JavaScript runtime.                        *)
(***************************************************************************)
Ch(s, i) == SubSeq(s, i, i)

Digits == {"0", "1", "2", "3", "4", "5", "6", "7", "8", "9"}

HexDigits == Digits \cup {"a", "b", "c", "d", "e", "f"}

\* s.indexOf(c) for a one-character c, 1-based; 0 when absent
IndexOf(s, c) ==
    LET I == {i \in 1..Len(s) : Ch(s, i) = c}
    IN  IF I = {} THEN 0 ELSE CHOOSE i \in I : \A j \in I : i <= j

LastIndexOf(s, c) ==
    LET I == {i \in 1..Len(s) : Ch(s, i) = c}
    IN  IF I = {} THEN 0 ELSE CHOOSE i \in I : \A j \in I : i >= j

\* the first position of any character of the set cs; Len(s) + 1 when none
FirstOf(s, cs) ==
    LET I == {i \in 1..Len(s) : Ch(s, i) \in cs}
    IN  IF I = {} THEN Len(s) + 1 ELSE CHOOSE i \in I : \A j \in I : i <= j

Upper == <<"A", "B", "C", "D", "E", "F", "G", "H", "I", "J", "K", "L", "M",
           "N", "O", "P", "Q", "R", "S", "T", "U", "V", "W", "X", "Y", "Z">>
Lower == <<"a", "b", "c", "d", "e", "f", "g", "h", "i", "j", "k", "l", "m",
           "n", "o", "p", "q", "r", "s", "t", "u", "v", "w", "x", "y", "z">>

LowerCh(c) ==
    IF \E k \in 1..26 : Upper[k] = c
    THEN Lower[CHOOSE k \in 1..26 : Upper[k] = c] ELSE c

RECURSIVE toLowerCase(_)
toLowerCase(s) ==
    IF s = "" THEN "" ELSE LowerCh(Ch(s, 1)) \o toLowerCase(SubSeq(s, 2, Len(s)))

Blank == {" ", "\t", "\n", "\r"}

RECURSIVE trimStart(_)
trimStart(s) ==
    IF s # "" /\ Ch(s, 1) \in Blank THEN trimStart(SubSeq(s, 2, Len(s))) ELSE s

RECURSIVE trimEnd(_)
trimEnd(s) ==
    IF s # "" /\ Ch(s, Len(s)) \in Blank THEN trimEnd(SubSeq(s, 1, Len(s) - 1)) ELSE s

trim(s) == trimEnd(trimStart(s))

sliceAll(x, n) == x

\* x.slice(0, n), of a string or of an array
slice(x, n) == IF Len(x) <= n THEN x ELSE SubSeq(x, 1, n)

RECURSIVE replaceControl(_)
replaceControl(s) ==
    IF s = "" THEN ""
    ELSE (IF Ch(s, 1) \in {"\r", "\n", "\t"} THEN " " ELSE Ch(s, 1))
             \o replaceControl(SubSeq(s, 2, Len(s)))

\* safeLog(s): CR, LF, TAB and ESC become a space, then the first 120 characters
\* (no text of the model holds an ESC)
safeLog(s) == slice(replaceControl(s), 120)

(***************************************************************************)
(* new URL(rawUrl), as far as assertSafeUrl reads it: whether the string   *)
(* parses, its protocol and its hostname.  The parse follows the WHATWG    *)
(* steps for the URLs the model presents: scheme up to the first ":",      *)
(* "//", the authority up to the first "/", "?" or "#", userinfo up to the *)
(* last "@", a bracketed IPv6 literal kept with its brackets, the port     *)
(* after the last ":", the hostname lower-cased.  Hosts are presented in   *)
(* canonical form (no percent escapes, no short or hexadecimal IPv4).      *)
(***************************************************************************)
NotAUrl == [valid |-> FALSE, protocol |-> "", hostname |-> ""]

parseUrl(raw) ==
    LET colon == IndexOf(raw, ":")
    IN  IF colon <= 1 \/ \E i \in 1..Len(raw) : Ch(raw, i) \in Blank THEN NotAUrl
        ELSE
        LET scheme == toLowerCase(SubSeq(raw, 1, colon - 1))
            rest   == SubSeq(raw, colon + 1, Len(raw))
        IN  IF ~StartsWith(rest, "//")
            THEN [valid |-> scheme \notin {"http", "https"},
                  protocol |-> scheme \o ":", hostname |-> ""]
            ELSE
            LET after == SubSeq(rest, 3, Len(rest))
                auth  == SubSeq(after, 1, FirstOf(after, {"/", "?", "#"}) - 1)
                hp    == SubSeq(auth, LastIndexOf(auth, "@") + 1, Len(auth))
                host  == IF StartsWith(hp, "[")
                         THEN SubSeq(hp, 1, IndexOf(hp, "]"))
                         ELSE IF IndexOf(hp, ":") > 0
                              THEN SubSeq(hp, 1, LastIndexOf(hp, ":") - 1)
                              ELSE hp
            IN  IF host = "" THEN NotAUrl
                ELSE [valid |-> TRUE, protocol |-> scheme \o ":",
                      hostname |-> toLowerCase(host)]

(***************************************************************************)
(* BLOCKED_HOST_RE, PRIVATE_IP_RE and CLOUD_METADATA.  A match position is *)
(* the index after the matched part, 0 for no match.  PRIVATE_IP_RE is     *)
(* anchored at the start only.                                             *)
(***************************************************************************)
matchLit(s, i, lit) ==
    IF i > 0 /\ i + Len(lit) - 1 <= Len(s) /\ SubSeq(s, i, i + Len(lit) - 1) = lit
    THEN i + Len(lit) ELSE 0

RECURSIVE skipDigits(_, _)
skipDigits(s, i) ==
    IF i <= Len(s) /\ Ch(s, i) \in Digits THEN skipDigits(s, i + 1) ELSE i

\* \d+
matchNum(s, i) ==
    IF i > 0 /\ skipDigits(s, i) > i THEN skipDigits(s, i) ELSE 0

\* \.\d+
matchDotNum(s, i) == matchNum(s, matchLit(s, i, "."))

\* (1[6-9]|2\d|3[01])
match172(s, i) ==
    IF i > 0 /\ i + 1 <= Len(s)
       /\ \/ Ch(s, i) = "1" /\ Ch(s, i + 1) \in {"6", "7", "8", "9"}
          \/ Ch(s, i) = "2" /\ Ch(s, i + 1) \in Digits
          \/ Ch(s, i) = "3" /\ Ch(s, i + 1) \in {"0", "1"}
    THEN i + 2 ELSE 0

\* [0-9a-f]{2}: after fc or fd
matchUla(s, i) ==
    IF i > 0 /\ i + 2 <= Len(s) /\ Ch(s, i) \in HexDigits /\ Ch(s, i + 1) \in HexDigits
       /\ Ch(s, i + 2) = ":"
    THEN i + 3 ELSE 0

BLOCKED_HOST_RE(host) ==
    \/ host = "localhost"
    \/ EndsWith(host, ".local")
    \/ EndsWith(host, ".internal")
    \/ EndsWith(host, ".localhost")
    \/ host = "metadata.google.internal"

PRIVATE_IP_RE(host) ==
    \/ matchDotNum(host, matchDotNum(host, matchDotNum(host, matchLit(host, 1, "10")))) > 0
    \/ matchDotNum(host, matchDotNum(host, match172(host, matchLit(host, 1, "172.")))) > 0
    \/ matchDotNum(host, matchDotNum(host, matchLit(host, 1, "192.168"))) > 0
    \/ matchDotNum(host, matchDotNum(host, matchDotNum(host, matchLit(host, 1, "127")))) > 0
    \/ matchLit(host, 1, "0.0.0.0") > 0
    \/ matchDotNum(host, matchDotNum(host, matchLit(host, 1, "169.254"))) > 0
    \/ matchLit(host, 1, "::1") > 0
    \/ matchUla(host, matchLit(host, 1, "fc")) > 0
    \/ matchUla(host, matchLit(host, 1, "fd")) > 0

CLOUD_METADATA ==
    {"169.254.169.254", "169.254.170.2", "metadata.google.internal", "100.100.100.200"}

(***************************************************************************)
(* assertSafeUrl(rawUrl): the message of the Error it throws, "" when it   *)
(* returns.                                                                *)
(***************************************************************************)
assertSafeUrlNamesOnly(rawUrl) ==
    LET parsed == parseUrl(rawUrl)
    IN  IF ~parsed.valid THEN "Invalid URL format."
        ELSE IF parsed.protocol # "https:" THEN "Only HTTPS URLs are allowed."
        ELSE IF BLOCKED_HOST_RE(toLowerCase(parsed.hostname))
        THEN "URL points to a blocked or private address."
        ELSE ""

assertSafeUrl(rawUrl) ==
    LET parsed == parseUrl(rawUrl)
        host   == toLowerCase(parsed.hostname)
    IN  IF ~parsed.valid THEN "Invalid URL format."
        ELSE IF parsed.protocol # "https:" THEN "Only HTTPS URLs are allowed."
        ELSE IF BLOCKED_HOST_RE(host) \/ PRIVATE_IP_RE(host) \/ host \in CLOUD_METADATA
        THEN "URL points to a blocked or private address."
        ELSE ""

(***************************************************************************)
(* safeErrorMessage(err): the message itself when it starts with one of    *)
(* the prefixes of OK, the generic fallback otherwise.                     *)
(***************************************************************************)
OK == {"Mistral API:", "Recipe ", "Could not fetch", "URL ", "Only HTTPS",
       "Invalid URL", "Unsafe redirect", "URL fetch", "Input too", "Recipe text",
       "Page appears", "type must be", "No images", "Max 4", "Unsupported image",
       "Could not parse", "Bilderna"}

Fallback == "Translation failed. Please try again."

safeErrorMessageRaw(msg) == msg

safeErrorMessage(msg) ==
    IF \E p \in OK : StartsWith(msg, p) THEN msg ELSE Fallback

(***************************************************************************)
(* The event the handler receives.  Headers are strings ("" when the       *)
(* header is absent); bodyLen is event.body.length and json says whether   *)
(* JSON.parse(event.body) succeeds; the other fields are those of the      *)
(* parsed body.  content is a string given by the number of blanks around  *)
(* it (pad) and the length of what trim() leaves (core); an image is its   *)
(* mime type and the length of its base64 text.                            *)
(***************************************************************************)
ALLOWED_ORIGINS == {"https://recept.example", "http://localhost:8888", "http://localhost:3000"}

MAX_BODY == 5500000
MIN_TEXT == 20
MAX_TEXT == 60000
MAX_IMAGES == 4
MAX_IMAGE_BYTES == 5000000
MIN_PAGE_TEXT == 100

ImageMimes == {"image/jpeg", "image/png", "image/gif", "image/webp"}

\* retryAfter: the Retry-After header, "" when the response has none
Resp(status, ok, error) ==
    [status |-> status, ok |-> ok, error |-> error, retryAfter |-> ""]

NoResp == Resp(0, "", "")

Fail(status, error) == Resp(status, "false", error)

\* the answer to a caller whose window is full
rateLimited ==
    [Fail(429, "For manga anrop. Vanta en minut.") EXCEPT !.retryAfter = "60"]

contentLength(c) == c.pad + c.core          \* String(content).length

trimmedLength(c) == c.core                  \* String(content).trim().length

RECURSIVE totalSize(_)
totalSize(images) ==
    IF images = << >> THEN 0 ELSE Head(images).b64 + totalSize(Tail(images))

\* event.headers["x-forwarded-for"]?.split(",")[0].trim() || client-ip || "unknown"
clientIp(r) ==
    LET hop == trim(SubSeq(r.xff, 1, FirstOf(r.xff, {","}) - 1))
    IN  IF hop # "" THEN hop ELSE IF r.clientIp # "" THEN r.clientIp ELSE "unknown"

originOkExact(r) == r.origin \in ALLOWED_ORIGINS \/ r.referer \in ALLOWED_ORIGINS

originOk(r) ==
    \E o \in ALLOWED_ORIGINS : StartsWith(r.origin, o) \/ StartsWith(r.referer, o)

(***************************************************************************)
(* The returns of the handler that read the event alone: the preflight,    *)
(* the method, the content type, the body size and the origin, in the      *)
(* order of the code.  NoResp: none of them returns.                       *)
(***************************************************************************)
earlyReturnOriginFirst(r) ==
    IF r.method = "OPTIONS" THEN Resp(204, "", "")
    ELSE IF r.method # "POST" THEN Fail(405, "Method not allowed")
    ELSE IF ~originOk(r) /\ r.origin # "" THEN Fail(403, "Forbidden")
    ELSE IF ~Includes(r.contentType, "application/json")
    THEN Fail(415, "Content-Type must be application/json")
    ELSE IF r.bodyLen > MAX_BODY THEN Fail(413, "Request too large.")
    ELSE NoResp

earlyReturn(r) ==
    IF r.method = "OPTIONS" THEN Resp(204, "", "")
    ELSE IF r.method # "POST" THEN Fail(405, "Method not allowed")
    ELSE IF ~Includes(r.contentType, "application/json")
    THEN Fail(415, "Content-Type must be application/json")
    ELSE IF r.bodyLen > MAX_BODY THEN Fail(413, "Request too large.")
    ELSE IF ~originOk(r) /\ r.origin # "" THEN Fail(403, "Forbidden")
    ELSE NoResp

(***************************************************************************)
(* The validation of the parsed body, after the token check.               *)
(***************************************************************************)
validateInput(r) ==
    IF r.type = "image" THEN
        IF ~r.hasImages \/ Len(r.images) = 0 THEN Fail(400, "No images received.")
        ELSE IF Len(r.images) > MAX_IMAGES THEN Fail(400, "Max 4 bilder.")
        ELSE IF totalSize(r.images) > MAX_IMAGE_BYTES THEN Fail(400, "Bilderna ar for stora.")
        ELSE IF \E i \in 1..Len(r.images) : r.images[i].mime \notin ImageMimes
        THEN Fail(400, "Unsupported image type.")
        ELSE NoResp
    ELSE IF r.type = "text" THEN
        IF contentLength(r.content) = 0 \/ trimmedLength(r.content) < MIN_TEXT
        THEN Fail(400, "Recipe text too short.")
        ELSE IF contentLength(r.content) > MAX_TEXT
        THEN Fail(400, "Input too long (max 60 000 characters).")
        ELSE NoResp
    ELSE IF r.type = "url" THEN
        IF r.url = "" THEN Fail(400, "Invalid URL.") ELSE NoResp
    ELSE Fail(400, "type must be text, url or image")

(***************************************************************************)
(* The catch block: every Error thrown inside the try is answered 500 with *)
(* the sanitized message.                                                  *)
(***************************************************************************)
caughtAsBadRequest(msg) == Fail(400, safeErrorMessage(msg))

caught(msg) == Fail(500, safeErrorMessage(msg))

(***************************************************************************)
(* One handler invocation.  pc is where it is suspended: "fetch" (await    *)
(* fetch(url)), "text" (await res.text()), "mistral" (await fetch of       *)
(* MISTRAL_URL), "json" (await res.json()), or "done" with its response.   *)
(* The history fields say whether checkRate and verifyToken returned true  *)
(* in this invocation, how many requests it sent, and the URL whose body   *)
(* it has read.                                                            *)
(***************************************************************************)
NoRequest ==
    [method |-> "", contentType |-> "", bodyLen |-> 0, origin |-> "", referer |-> "",
     xff |-> "", clientIp |-> "", json |-> FALSE, token |-> NullToken, type |-> "",
     content |-> [pad |-> 0, core |-> 0], url |-> "", hasImages |-> FALSE, images |-> << >>]

Idle ==
    [pc |-> "idle", r |-> NoRequest, resp |-> NoResp, rateCalled |-> FALSE, rateOk |-> FALSE,
     tokCalled |-> FALSE, tokOk |-> FALSE, fetches |-> 0, upstreams |-> 0,
     finalUrl |-> "", textOf |-> "", upStatus |-> 0, thrown |-> "", log |-> {}]

Started(r) == [Idle EXCEPT !.pc = "run", !.r = r]

Done(inv, resp) == [inv EXCEPT !.pc = "done", !.resp = resp]

\* console.warn and console.error, the arguments joined by a space
Logged(inv, line) == [inv EXCEPT !.log = @ \cup {line}]

blockedOriginLine(r) ==
    "[translate-v7] Blocked origin: " \o safeLog(r.origin) \o " IP: " \o safeLog(clientIp(r))

rateLimitedLine(r) == "[translate-v7] Rate limited IP hash: " \o hashIp(clientIp(r))

badTokenLine(r) ==
    "[translate-v7] Invalid or missing token from IP hash: " \o hashIp(clientIp(r))

internalErrorLine(msg) == "[translate-v7] Internal error: " \o safeLog(msg)

\* an Error thrown inside the try: the catch block answers it, and safeErrorMessage
\* logs the message it replaces
Throw(inv, msg) ==
    LET i2 == [inv EXCEPT !.thrown = msg]
    IN  Done(IF safeErrorMessage(msg) = msg THEN i2 ELSE Logged(i2, internalErrorLine(msg)),
             caught(msg))

\* callMistral up to its await: it throws without a key, else it sends the request
callMistral(inv) ==
    IF apiKey = "" THEN Throw(inv, "Mistral API: MISTRAL_API_KEY not configured.")
    ELSE [inv EXCEPT !.pc = "mistral", !.upstreams = @ + 1]

\* fetchPageText up to its await: assertSafeUrl(url) throws, else the request is sent
fetchPageText(inv) ==
    IF assertSafeUrl(inv.r.url) # "" THEN Throw(inv, assertSafeUrl(inv.r.url))
    ELSE [inv EXCEPT !.pc = "fetch", !.fetches = @ + 1]

\* the handler from the token check to its first await or return
afterTokenUnverified(inv, v) ==
    LET bad == validateInput(inv.r)
        i2  == [inv EXCEPT !.tokCalled = TRUE, !.tokOk = v.ok]
    IN  IF bad # NoResp THEN Done(i2, bad)
        ELSE IF inv.r.type = "url" THEN fetchPageText(i2)
        ELSE callMistral(i2)

afterToken(inv, v) ==
    LET bad == validateInput(inv.r)
        i2  == [inv EXCEPT !.tokCalled = TRUE, !.tokOk = v.ok]
    IN  IF ~v.ok
        THEN Done(Logged(i2, badTokenLine(inv.r)), Fail(403, "Invalid or expired request token."))
        ELSE IF bad # NoResp THEN Done(i2, bad)
        ELSE IF inv.r.type = "url" THEN fetchPageText(i2)
        ELSE callMistral(i2)

\* the handler from its entry to its first await or return: the invocation, the
\* rate map and the ledger it leaves, and the checkRate and verifyToken calls made
handlerEntry(r) ==
    LET pr    == maybePruneRateMap(ipWindows, bulk, now)
        inv   == Started(r)
        quiet == [inv |-> inv, map |-> pr.map, bulk |-> pr.bulk, ledger |-> usedNonces,
                  rate |-> FALSE, verify |-> FALSE, vok |-> FALSE]
        early == earlyReturn(r)
        rate  == checkRate(pr.map, clientIp(r), now)
        inv2  == [inv EXCEPT !.rateCalled = TRUE, !.rateOk = rate.ok]
        v     == verifyToken(usedNonces, secret, r.token, now)
    IN  IF early = Fail(403, "Forbidden")
        THEN [quiet EXCEPT !.inv = Done(Logged(inv, blockedOriginLine(r)), early)]
        ELSE IF early # NoResp THEN [quiet EXCEPT !.inv = Done(inv, early)]
        ELSE IF ~rate.ok
        THEN [quiet EXCEPT !.inv = Done(Logged(inv2, rateLimitedLine(r)), rateLimited),
                           !.map = rate.map, !.rate = TRUE]
        ELSE IF ~r.json
        THEN [quiet EXCEPT !.inv = Done(inv2, Fail(400, "Invalid JSON body")),
                           !.map = rate.map, !.rate = TRUE]
        ELSE [quiet EXCEPT !.inv = afterToken(inv2, v), !.map = rate.map, !.rate = TRUE,
                           !.ledger = v.ledger, !.verify = TRUE, !.vok = v.ok]

(***************************************************************************)
(* What the awaited promises settle to.  fetch() of a page rejects with    *)
(* an AbortError or another error, or resolves to a response: the URL the  *)
(* redirects ended at and the status.  res.text() rejects or resolves to a *)
(* page whose text, tags stripped, has the given length.  The upstream     *)
(* fetch settles alike; res.json() rejects or resolves to the error code   *)
(* of an error body or the kind of the model's reply.                      *)
(***************************************************************************)
RedirectTargets ==
    {"https://cdn.example.org/recipe", "https://169.254.169.254/latest/meta-data/",
     "http://example.com/recipe", "https://intranet.local/"}

PageStatuses == {200, 404}

FetchOutcomes(url) ==
    {[kind |-> "abort", url |-> "", status |-> 0], [kind |-> "error", url |-> "", status |-> 0]}
    \cup {[kind |-> "response", url |-> u, status |-> st] :
             u \in {url, ""} \cup RedirectTargets, st \in PageStatuses}

TextOutcomes == {0 - 1, 0, MIN_PAGE_TEXT - 1, MIN_PAGE_TEXT}     \* -1: res.text() rejects

UpstreamOutcomes == {0 - 2, 0 - 1, 200, 401, 402, 429, 500}     \* -2: abort, -1: network error

ReplyKinds ==
    {"recipe", "fenced", "empty", "prose", "null", "notitle", "noingredients", "nosteps",
     "numbertitle"}

ErrorBodies == {"", "usage_exceeded"}

JsonOutcomes(status) ==
    {"reject"} \cup (IF status = 200 THEN ReplyKinds ELSE ErrorBodies)

httpOk(status) == status >= 200 /\ status <= 299

\* the Error callMistral throws for a response that is not ok
upstreamError(status, code) ==
    IF code = "usage_exceeded" \/ status = 402
    THEN "Mistral API: gratiskvoten ar slut. Ga till console.mistral.ai."
    ELSE IF status = 429 THEN "Mistral API: for manga anrop. Vanta en minut."
    ELSE IF status = 401 THEN "Mistral API: ogiltig nyckel. Kontrollera MISTRAL_API_KEY."
    ELSE "Mistral API: fel " \o ToString(status) \o "."

\* the Error callMistral, extractJSON or validateRecipe throws for a reply, "" for none
replyError(kind) ==
    CASE kind = "empty" -> "Could not parse model response."
      [] kind = "prose" -> "Could not parse model response."
      [] kind = "null" -> "Response is not a recipe object."
      [] kind = "notitle" -> "Recipe missing title."
      [] kind = "noingredients" -> "Recipe missing ingredients."
      [] kind = "nosteps" -> "Recipe missing steps."
      [] kind = "numbertitle" -> "obj.titel?.trim is not a function"
      [] OTHER -> ""

\* fetchPageText from the settling of fetch() to the next await; finalUrl is res.url
fetchSettledNoRedirectCheck(inv, o) ==
    LET i2 == [inv EXCEPT !.finalUrl = o.url]
    IN  IF o.kind = "abort" THEN Throw(inv, "URL fetch timed out.")
        ELSE IF o.kind = "error" THEN Throw(inv, "Could not fetch URL.")
        ELSE IF ~httpOk(o.status)
        THEN Throw(i2, "Could not fetch page (HTTP " \o ToString(o.status) \o ").")
        ELSE [i2 EXCEPT !.pc = "text"]

fetchSettled(inv, o) ==
    LET i2 == [inv EXCEPT !.finalUrl = o.url]
    IN  IF o.kind = "abort" THEN Throw(inv, "URL fetch timed out.")
        ELSE IF o.kind = "error" THEN Throw(inv, "Could not fetch URL.")
        ELSE IF o.url # "" /\ o.url # inv.r.url /\ assertSafeUrl(o.url) # ""
        THEN Throw(i2, "Unsafe redirect: " \o assertSafeUrl(o.url))
        ELSE IF ~httpOk(o.status)
        THEN Throw(i2, "Could not fetch page (HTTP " \o ToString(o.status) \o ").")
        ELSE [i2 EXCEPT !.pc = "text"]

\* from the settling of res.text() to the next await; textOf is the URL of the body read
textSettled(inv, len) ==
    LET i2 == [inv EXCEPT !.textOf = IF inv.finalUrl = "" THEN inv.r.url ELSE inv.finalUrl]
    IN  IF len < 0 THEN Throw(inv, "terminated")
        ELSE IF len < MIN_PAGE_TEXT
        THEN Throw(i2, "Page appears empty or could not be read.")
        ELSE callMistral(i2)

\* callMistral from the settling of fetch(MISTRAL_URL) to res.json()
mistralSettled(inv, o) ==
    IF o = 0 - 2 THEN Throw(inv, "Mistral API: request timed out.")
    ELSE IF o = 0 - 1 THEN Throw(inv, "Mistral API: network error.")
    ELSE [inv EXCEPT !.pc = "json", !.upStatus = o]

\* from the settling of res.json() to the handler's return
jsonSettled(inv, o) ==
    IF o = "reject" THEN Throw(inv, "Unexpected token < in JSON at position 0")
    ELSE IF ~httpOk(inv.upStatus) THEN Throw(inv, upstreamError(inv.upStatus, o))
    ELSE IF replyError(o) # "" THEN Throw(inv, replyError(o))
    ELSE Done(inv, Resp(200, "true", ""))

(***************************************************************************)
(* The state after the module is loaded: both Maps empty, except that the  *)
(* process may already have served Background other fingerprints at T0.    *)
(***************************************************************************)
NoCall == [key |-> "", t |-> -1, ok |-> FALSE, before |-> NoRec, after |-> NoRec]

NoInput == [kind |-> "none"]

NoOutput == [kind |-> "none"]

Init ==
    /\ now = T0
    /\ ipWindows = [k \in Keys |-> NoRec]
    /\ bulk \in {[n |-> n, windowStart |-> T0] : n \in {0, Background}}
    /\ lastRate = NoCall
    /\ winLog = [k \in Keys |-> << >>]
    /\ secret = TheSecret
    /\ usedNonces = << >>
    /\ accepted = {}
    /\ lastVerify = NoVerify
    /\ apiKey = "sk-live"
    /\ inflight = Idle
    /\ served = 0
    /\ fetchCalls = 0
    /\ upstreamCalls = 0
    /\ issued = {}
    /\ parked = << >>
    /\ input = NoInput
    /\ output = NoOutput
    /\ rejected = {}
    /\ failed = {}
    /\ admits = << >>

(***************************************************************************)
(* The clock.  Tick(d) advances Date.now() by d ms.                        *)
(***************************************************************************)
Horizon == T0 + MaxWindows * RATE_WINDOW + MaxMs

Tick(d) ==
    /\ now + d <= Horizon
    /\ now' = now + d
    /\ UNCHANGED <<rateVars, tokenVars, gateVars, auxVars>>

TickMs ==
    /\ (now - T0) % RATE_WINDOW < MaxMs
    /\ Tick(1)

TickWindow == Tick(RATE_WINDOW)

(***************************************************************************)
(* A direct call of checkRate(ip), as a unit test makes it.                *)
(***************************************************************************)
logRate(log, map, ip, t, ok) ==
    LET key == hashIp(ip)
    IN  IF map[key] = NoRec \/ t - map[key].windowStart > RATE_WINDOW
        THEN [log EXCEPT ![key] = <<ok>>]
        ELSE [log EXCEPT ![key] = Append(@, ok)]

CallCheckRate(ip) ==
    LET key == hashIp(ip)
        r   == checkRate(ipWindows, ip, now)
    IN  /\ \/ ipWindows[key].count < RATE_MAX + MaxOver
           \/ now - ipWindows[key].windowStart > RATE_WINDOW
        /\ ipWindows' = r.map
        /\ lastRate' = [key |-> key, t |-> now, ok |-> r.ok,
                        before |-> ipWindows[key], after |-> r.map[key]]
        /\ winLog' = logRate(winLog, ipWindows, ip, now, r.ok)
        /\ UNCHANGED <<now, bulk, tokenVars, gateVars, auxVars>>

CallMaybePrune ==
    LET r == maybePruneRateMap(ipWindows, bulk, now)
    IN  /\ ipWindows' = r.map
        /\ bulk' = r.bulk
        /\ UNCHANGED <<now, lastRate, winLog, tokenVars, gateVars, auxVars>>

NextRate ==
    \/ TickMs
    \/ TickWindow
    \/ \E ip \in RateIps : CallCheckRate(ip)
    \/ CallMaybePrune

SpecRate == Init /\ [][NextRate]_vars

(***************************************************************************)
(* A direct call of verifyToken(tokenObj).  The tokens presented are the   *)
(* ones a client can hold at this moment: tokens signed with the secret    *)
(* whose exp lies around the accepted range (a token of the endpoint has   *)
(* exp = issue time + 300 s), the same with a guessed signature, malformed *)
(* objects, and every token presented before.                              *)
(***************************************************************************)
ExpOffsets == {0 - 1, 0, TOKEN_TTL_SECONDS, VERIFY_MAX_AHEAD, VERIFY_MAX_AHEAD + 1}

Crafted(t) ==
    {Signed(Nonce1, nowSec(t) + d) : d \in ExpOffsets}
    \cup {Signed(Nonce2, nowSec(t) + TOKEN_TTL_SECONDS)}
    \cup {Forged(Nonce1, nowSec(t) + d) : d \in ExpOffsets}
    \cup {NullToken,
          Signed(ShortNonce, nowSec(t) + TOKEN_TTL_SECONDS),
          Token("", nowSec(t) + TOKEN_TTL_SECONDS, "00"),
          Token(Nonce1, 0, hmac(TheSecret, payloadOf(Nonce1, 0))),
          Token(Nonce1, nowSec(t) + TOKEN_TTL_SECONDS, "")}

Presentable(t) ==
    IF Cardinality(accepted) < MaxAccepted
    THEN Crafted(t) \cup accepted \cup {lastVerify.tok}
    ELSE accepted \cup {lastVerify.tok}

IsReplay(tok) ==
    \E a \in accepted : a.nonce = tok.nonce /\ a.sig = tok.sig

CallVerifyToken(tok) ==
    LET r == verifyToken(usedNonces, secret, tok, now)
    IN  /\ usedNonces' = r.ledger
        /\ accepted' = IF r.ok THEN accepted \cup {tok} ELSE accepted
        /\ lastVerify' = [tok |-> tok, t |-> now, ok |-> r.ok, replay |-> IsReplay(tok),
                          had |-> tok.nonce \in DOMAIN usedNonces]
        /\ UNCHANGED <<now, rateVars, secret, gateVars, auxVars>>

TokenHorizon == T0 + MaxTokenSecs * 1000

TickSec(d) ==
    /\ now + d * 1000 <= TokenHorizon
    /\ d = 1 => (nowSec(now) - nowSec(T0)) % 30 < MaxSec
    /\ now' = now + d * 1000
    /\ UNCHANGED <<rateVars, tokenVars, gateVars, auxVars>>

NextToken ==
    \/ \E d \in {1, 30} : TickSec(d)
    \/ \E tok \in Presentable(now) : CallVerifyToken(tok)

SpecToken == Init /\ [][NextToken]_vars

(***************************************************************************)
(* C1.  A token is accepted at most once.                                  *)
(***************************************************************************)
\* C1: with TOKEN_SECRET configured, a verifyToken call that presents the nonce
\* and signature of a token accepted earlier returns false, whatever the clock
\* shows and whether or not pruneNonces has deleted the ledger entry meanwhile.
C1_AcceptedAtMostOnce ==
    (secret # "" /\ lastVerify.replay) => ~lastVerify.ok

\* An accepted token is presented again in the call whose pruneNonces deletes
\* its ledger entry: the entry was there before the call and is gone after it.
C1_Witness ==
    /\ secret # ""
    /\ lastVerify.replay
    /\ lastVerify.had
    /\ lastVerify.tok.nonce \notin DOMAIN usedNonces
    /\ ~lastVerify.ok

(***************************************************************************)
(* C3.  Expired and far-future tokens are rejected whatever the signature. *)
(***************************************************************************)
OutOfRange(tok, t) ==
    tok.exp < nowSec(t) \/ tok.exp > nowSec(t) + TOKEN_TTL_SECONDS + 10

\* C3: with TOKEN_SECRET configured, verifyToken returns false for every token
\* whose exp is before the current second or after now + 300 s + 10 s, also when
\* its signature is the HMAC of nonce:exp, and the call does not add the nonce
\* to the ledger.
C3_ExpiryWindowEnforced ==
    (secret # "" /\ lastVerify.t >= 0 /\ lastVerify.tok.shape = "object"
        /\ OutOfRange(lastVerify.tok, lastVerify.t))
      => /\ ~lastVerify.ok
         /\ lastVerify.tok.nonce \in DOMAIN usedNonces => lastVerify.had

\* A correctly signed token whose exp is one second beyond the accepted range
\* has been presented and rejected.
C3_Witness ==
    /\ secret # ""
    /\ lastVerify.tok = Signed(Nonce1, nowSec(lastVerify.t) + TOKEN_TTL_SECONDS + 11)
    /\ ~lastVerify.ok
    /\ Nonce1 \notin DOMAIN usedNonces

(***************************************************************************)
(* C2.  In one window of a fingerprint the first RATE_MAX calls of         *)
(* checkRate are admitted and the next one is denied.                      *)
(***************************************************************************)
FirstNAdmitted ==
    \A k \in Keys : \A i \in 1..Len(winLog[k]) : winLog[k][i] = (i <= RATE_MAX)

FreshWindow(call) ==
    call.ok /\ call.after = [count |-> 1, windowStart |-> call.t]

\* C2 as stated: N+1 calls inside one window yield exactly one denial, the
\* (N+1)th, and a call made once RATE_WINDOW ms have elapsed since the window
\* started is admitted and leaves the window with count 1.
C2_AdmittedOnceWElapsed ==
    /\ FirstNAdmitted
    /\ (lastRate.before # NoRec /\ lastRate.t - lastRate.before.windowStart >= RATE_WINDOW)
          => FreshWindow(lastRate)

\* C2 amended: N+1 calls inside one window yield exactly one denial, the
\* (N+1)th, and a call made once MORE THAN RATE_WINDOW ms have elapsed since the
\* window started is admitted and leaves the window with count 1; a call made
\* exactly RATE_WINDOW ms after the start still belongs to the old window.
C2_AdmittedAfterW ==
    /\ FirstNAdmitted
    /\ (lastRate.before # NoRec /\ lastRate.t - lastRate.before.windowStart > RATE_WINDOW)
          => FreshWindow(lastRate)
    /\ (lastRate.before # NoRec /\ lastRate.t - lastRate.before.windowStart = RATE_WINDOW)
          => /\ lastRate.after.windowStart = lastRate.before.windowStart
             /\ lastRate.after.count = lastRate.before.count + 1
             /\ lastRate.ok = (lastRate.after.count <= RATE_MAX)

\* A fingerprint that made RATE_MAX + 1 calls in its window (the last one
\* denied) calls again more than RATE_WINDOW ms after the window started.
C2_Witness ==
    /\ lastRate.before.count = RATE_MAX + 1
    /\ lastRate.t - lastRate.before.windowStart > RATE_WINDOW
    /\ FreshWindow(lastRate)

(***************************************************************************)
(* The gateway: handler invocations, one at a time, on a warm instance.    *)
(* The instance has served before: the window of the callers that send no  *)
(* address header is full, and the rate map may hold the windows of other  *)
(* callers.                                                                *)
(***************************************************************************)
InitGateway ==
    /\ now = T0
    /\ ipWindows = [k \in Keys |->
                       IF k = hashIp("") THEN [count |-> RATE_MAX, windowStart |-> T0]
                       ELSE NoRec]
    /\ bulk \in {[n |-> n, windowStart |-> T0] : n \in {0, Background}}
    /\ lastRate = NoCall
    /\ winLog = [k \in Keys |-> << >>]
    /\ secret = TheSecret
    /\ usedNonces = << >>
    /\ accepted = {}
    /\ lastVerify = NoVerify
    /\ apiKey \in {"sk-live", ""}
    /\ inflight = Idle
    /\ served = 0
    /\ fetchCalls = 0
    /\ upstreamCalls = 0
    /\ issued = {}
    /\ parked = << >>
    /\ input = NoInput
    /\ output = NoOutput
    /\ rejected = {}
    /\ failed = {}
    /\ admits = << >>

Methods == {"POST", "OPTIONS", "GET"}

ContentTypes == {"application/json; charset=utf-8", "text/plain", ""}

BodyLens == {1000, MAX_BODY + 1}

\* origin and referer headers
OriginPairs ==
    {<<"http://localhost:3000", "">>, <<"https://evil.example", "">>, <<"", "">>,
     <<"https://evil.example", "https://recept.example/">>}

\* x-forwarded-for and client-ip headers
AddressPairs ==
    {<<"203.0.113.7", "">>, <<"198.51.100.9, 10.0.0.1", "">>, <<"", "203.0.113.7">>, <<"", "">>}

GoodText == [pad |-> 0, core |-> 200]

Texts ==
    {GoodText, [pad |-> 0, core |-> 0], [pad |-> 30, core |-> MIN_TEXT - 1],
     [pad |-> 0, core |-> MIN_TEXT], [pad |-> 0, core |-> MAX_TEXT],
     [pad |-> 1, core |-> MAX_TEXT]}

Urls ==
    {"https://example.com/recipe", "https://127.0.0.1/", "https://169.254.169.254/latest",
     "https://10.0.0.5/admin", "https://db.internal/", "http://example.com/recipe",
     "not a url", "https://LocalHost:8443/x", "https://192.168.1.1/", ""}

Jpeg(n) == [mime |-> "image/jpeg", b64 |-> n]

ImageLists ==
    {<<Jpeg(1000)>>, << >>, <<Jpeg(1), Jpeg(1), Jpeg(1), Jpeg(1), Jpeg(1)>>,
     <<Jpeg(MAX_IMAGE_BYTES), Jpeg(1)>>, <<Jpeg(MAX_IMAGE_BYTES)>>,
     <<[mime |-> "image/svg+xml", b64 |-> 10]>>}

GoodRequest(tok) ==
    [method |-> "POST", contentType |-> "application/json", bodyLen |-> 1000,
     origin |-> "https://recept.example", referer |-> "", xff |-> "203.0.113.7",
     clientIp |-> "", json |-> TRUE, token |-> tok, type |-> "text",
     content |-> GoodText, url |-> "", hasImages |-> FALSE, images |-> << >>]

Payloads(tok) ==
    {[GoodRequest(tok) EXCEPT !.content = c] : c \in Texts}
    \cup {[GoodRequest(tok) EXCEPT !.type = "url", !.url = u] : u \in Urls}
    \cup {[GoodRequest(tok) EXCEPT !.type = "image", !.hasImages = TRUE, !.images = l] :
             l \in ImageLists}
    \cup {[GoodRequest(tok) EXCEPT !.type = "image"], [GoodRequest(tok) EXCEPT !.type = "pdf"]}

Fresh(t) == Signed(Nonce1, nowSec(t) + TOKEN_TTL_SECONDS)

GatewayTokens(t) ==
    {Fresh(t), Signed(Nonce2, nowSec(t) + TOKEN_TTL_SECONDS),
     Forged(Nonce1, nowSec(t) + TOKEN_TTL_SECONDS), Signed(Nonce1, nowSec(t) - 1), NullToken}
    \cup accepted

Requests(t) ==
    {[GoodRequest(Fresh(t)) EXCEPT !.method = m, !.contentType = ct, !.bodyLen = n,
                                   !.origin = o[1], !.referer = o[2]] :
        m \in Methods, ct \in ContentTypes, n \in BodyLens, o \in OriginPairs}
    \cup {[GoodRequest(tok) EXCEPT !.xff = a[1], !.clientIp = a[2], !.json = j] :
             tok \in {Fresh(t), NullToken}, a \in AddressPairs, j \in BOOLEAN}
    \cup {[GoodRequest(NullToken) EXCEPT !.xff = "", !.origin = o, !.contentType = ct] :
             o \in {"https://evil.example", "https://recept.example.evil.test"},
             ct \in {"application/json", "text/plain"}}
    \cup {[GoodRequest(Fresh(t)) EXCEPT !.bodyLen = MAX_BODY]}
    \cup {GoodRequest(tok) : tok \in GatewayTokens(t)}
    \cup Payloads(Fresh(t))
    \cup {[GoodRequest(NullToken) EXCEPT !.type = ty] : ty \in {"url", "pdf"}}

logVerify(r, e) ==
    IF e.verify
    THEN /\ lastVerify' = [tok |-> r.token, t |-> now, ok |-> e.vok, replay |-> IsReplay(r.token),
                           had |-> r.token.nonce \in DOMAIN usedNonces]
         /\ accepted' = IF e.vok THEN accepted \cup {r.token} ELSE accepted
    ELSE UNCHANGED <<lastVerify, accepted>>

Handler(r) ==
    /\ LET e == handlerEntry(r) IN
        /\ inflight' = e.inv
        /\ ipWindows' = e.map
        /\ bulk' = e.bulk
        /\ usedNonces' = e.ledger
        /\ logVerify(r, e)
        /\ fetchCalls' = fetchCalls + e.inv.fetches
        /\ upstreamCalls' = upstreamCalls + e.inv.upstreams
    /\ served' = served + 1
    /\ UNCHANGED <<now, lastRate, winLog, secret, apiKey, auxVars>>

\* the platform invokes the handler when the invocation before has returned
Invoke ==
    /\ inflight.pc = "idle"
    /\ served < MaxRequests
    /\ \E r \in Requests(now) : Handler(r)

FetchSettles(o) ==
    /\ inflight.pc = "fetch"
    /\ inflight' = fetchSettled(inflight, o)
    /\ UNCHANGED <<now, rateVars, tokenVars, apiKey, served, fetchCalls, upstreamCalls, auxVars>>

TextSettles(len) ==
    /\ inflight.pc = "text"
    /\ inflight' = textSettled(inflight, len)
    /\ upstreamCalls' = upstreamCalls + (inflight'.upstreams - inflight.upstreams)
    /\ UNCHANGED <<now, rateVars, tokenVars, apiKey, served, fetchCalls, auxVars>>

MistralSettles(o) ==
    /\ inflight.pc = "mistral"
    /\ inflight' = mistralSettled(inflight, o)
    /\ UNCHANGED <<now, rateVars, tokenVars, apiKey, served, fetchCalls, upstreamCalls, auxVars>>

JsonSettles(o) ==
    /\ inflight.pc = "json"
    /\ inflight' = jsonSettled(inflight, o)
    /\ UNCHANGED <<now, rateVars, tokenVars, apiKey, served, fetchCalls, upstreamCalls, auxVars>>

\* the handler's promise resolves: the response is sent and the invocation is over
Respond ==
    /\ inflight.pc = "done"
    /\ inflight' = Idle
    /\ UNCHANGED <<now, rateVars, tokenVars, apiKey, served, fetchCalls, upstreamCalls, auxVars>>

\* the clock between requests: a moment, half a window, or long enough for every
\* window to end
GatewayTick ==
    /\ inflight.pc = "idle"
    /\ served < MaxRequests
    /\ now = T0
    /\ \E d \in {1, RATE_WINDOW \div 2, 2 * RATE_WINDOW + 1} : Tick(d)

Next ==
    \/ Invoke
    \/ \E o \in FetchOutcomes(inflight.r.url) : FetchSettles(o)
    \/ \E len \in TextOutcomes : TextSettles(len)
    \/ \E o \in UpstreamOutcomes : MistralSettles(o)
    \/ \E o \in JsonOutcomes(inflight.upStatus) : JsonSettles(o)
    \/ Respond
    \/ GatewayTick

Spec == InitGateway /\ [][Next]_vars

\* a step in which the platform invokes the handler
Invoked == inflight.pc = "idle" /\ inflight'.pc # "idle"

\* a step in which the handler invocation reaches its return
Returns == inflight.pc # "done" /\ inflight'.pc = "done"

Failed(inv) == inv.pc = "done" /\ inv.resp.ok = "false"

(***************************************************************************)
(* C4.  With TOKEN_SECRET configured each token unlocks at most one        *)
(* upstream call: an invocation that has sent a request to the model has   *)
(* been admitted by checkRate and has had its token verified, and the      *)
(* upstream calls made so far never outnumber the distinct tokens          *)
(* verifyToken has accepted.                                               *)
(***************************************************************************)
C4_OneUpstreamCallPerToken ==
    secret # "" =>
        /\ upstreamCalls <= Cardinality(accepted)
        /\ inflight.upstreams > 0 => inflight.rateOk /\ inflight.tokOk

\* a second request replays the token that unlocked the first upstream call
C4_Witness ==
    /\ secret # ""
    /\ upstreamCalls = 1
    /\ served = 2
    /\ Failed(inflight)
    /\ inflight.tokCalled /\ ~inflight.tokOk /\ lastVerify.replay
    /\ inflight.upstreams = 0

(***************************************************************************)
(* C5.  A url request whose URL names 127.0.0.1, 169.254.169.254,          *)
(* 10.0.0.5 or a host under .internal, or is not HTTPS, or does not parse, *)
(* is answered with the error of assertSafeUrl in the step that invokes    *)
(* the handler, and that step sends no request: fetchCalls is unchanged.   *)
(***************************************************************************)
C5_NamedUrls ==
    {"https://127.0.0.1/", "https://169.254.169.254/latest", "https://10.0.0.5/admin",
     "https://db.internal/", "http://example.com/recipe", "not a url"}

C5_UnsafeUrlErrors ==
    {"URL points to a blocked or private address.", "Only HTTPS URLs are allowed.",
     "Invalid URL format."}

C5_UnsafeUrlNeverFetched ==
    [][(Invoked /\ inflight'.tokOk /\ inflight'.r.type = "url"
          /\ inflight'.r.url \in C5_NamedUrls)
       => /\ Failed(inflight')
          /\ inflight'.resp.error \in C5_UnsafeUrlErrors
          /\ inflight'.fetches = 0
          /\ fetchCalls' = fetchCalls]_vars

C5_Witness ==
    /\ Failed(inflight)
    /\ inflight.tokOk
    /\ inflight.r.type = "url"
    /\ inflight.r.url = "https://169.254.169.254/latest"
    /\ inflight.resp.error = "URL points to a blocked or private address."
    /\ inflight.fetches = 0

(***************************************************************************)
(* C6.  When the fetch of a safe URL ends, after redirects, at a URL that  *)
(* assertSafeUrl rejects, the invocation fails with "Unsafe redirect" once *)
(* the fetch has returned: it never reads the body, so no text of that URL *)
(* is returned or reaches the upstream call.                               *)
(***************************************************************************)
C6_UnsafeTargets ==
    {"https://169.254.169.254/latest/meta-data/", "http://example.com/recipe",
     "https://intranet.local/"}

C6_UnsafeRedirectNeverRead ==
    /\ inflight.finalUrl \in C6_UnsafeTargets /\ inflight.finalUrl # inflight.r.url
         => /\ Failed(inflight)
            /\ StartsWith(inflight.resp.error, "Unsafe redirect: ")
            /\ inflight.fetches = 1
            /\ inflight.textOf = ""
            /\ inflight.upstreams = 0
    /\ inflight.textOf \notin C6_UnsafeTargets

C6_Witness ==
    /\ Failed(inflight)
    /\ inflight.r.url = "https://example.com/recipe"
    /\ inflight.finalUrl = "https://169.254.169.254/latest/meta-data/"
    /\ inflight.fetches = 1
    /\ inflight.resp.error = "Unsafe redirect: URL points to a blocked or private address."

(***************************************************************************)
(* C7.  The error of every ok:false response starts with a prefix of the   *)
(* allow-list of safeErrorMessage, or is the generic fallback, or is one   *)
(* of the fixed strings of the returns that precede input validation; the  *)
(* error of every 500 is allow-listed or the fallback.                     *)
(***************************************************************************)
AllowListed(msg) == \E p \in OK : StartsWith(msg, p)

C7_FixedErrors ==
    {"Method not allowed", "Content-Type must be application/json", "Request too large.",
     "Forbidden", "For manga anrop. Vanta en minut.", "Invalid JSON body",
     "Invalid or expired request token."}

\* as the specification states it: allow-listed or the fallback, at every exit
C7_AllowListedOrFallback ==
    Failed(inflight) =>
        AllowListed(inflight.resp.error) \/ inflight.resp.error = Fallback

C7_ErrorsFixedOrSanitized ==
    Failed(inflight) =>
        /\ \/ AllowListed(inflight.resp.error)
           \/ inflight.resp.error = Fallback
           \/ inflight.resp.error \in C7_FixedErrors /\ inflight.resp.status \in 400..499
        /\ inflight.resp.status = 500
             => AllowListed(inflight.resp.error) \/ inflight.resp.error = Fallback

\* an error outside the allow-list has been thrown and the fallback returned
C7_Witness ==
    /\ Failed(inflight)
    /\ inflight.resp.status = 500
    /\ inflight.resp.error = Fallback
    /\ inflight.upstreams = 1

(***************************************************************************)
(* C8.  A request answered with a 4xx status, such as a text under the     *)
(* length floor with a valid token, is answered in the step that invokes   *)
(* the handler: no page has been fetched and no upstream call made for it, *)
(* and both counters are unchanged.                                        *)
(***************************************************************************)
C8_ClientErrorsBeforeAnyCall ==
    [][(Returns /\ inflight'.resp.status \in 400..499)
       => /\ Invoked
          /\ inflight'.fetches = 0 /\ inflight'.upstreams = 0
          /\ fetchCalls' = fetchCalls /\ upstreamCalls' = upstreamCalls]_vars

C8_Witness ==
    /\ Failed(inflight)
    /\ inflight.tokOk
    /\ inflight.r.type = "text"
    /\ inflight.r.content.core = MIN_TEXT - 1
    /\ inflight.resp = Fail(400, "Recipe text too short.")
    /\ fetchCalls = 0 /\ upstreamCalls = 0

(***************************************************************************)
(* C9.  The handler answers with the earliest failing check in the order   *)
(* method, content type, body size, origin, rate limit, JSON parse, token,  *)
(* input validation, and a check that follows the failing one neither runs *)
(* nor changes state.                                                      *)
(***************************************************************************)
BadContentType(r) == ~Includes(r.contentType, "application/json")

BadOrigin(r) == ~originOk(r) /\ r.origin # ""

Preflight == Invoked /\ inflight'.r.method = "OPTIONS"

NoCheckRan ==
    /\ inflight'.pc = "done" /\ inflight'.resp.status = 204
    /\ ~inflight'.rateCalled /\ ~inflight'.tokCalled
    /\ inflight'.fetches = 0 /\ inflight'.upstreams = 0
    /\ fetchCalls' = fetchCalls /\ upstreamCalls' = upstreamCalls
    /\ usedNonces' = usedNonces

\* as the specification states it: every rate window exactly as before
C10_PreflightChangesNothing ==
    [][Preflight => NoCheckRan /\ ipWindows' = ipWindows /\ bulk' = bulk]_vars

C10_PreflightOnlyPrunes ==
    [][Preflight =>
        /\ NoCheckRan
        /\ \A k \in Keys :
              \/ ipWindows'[k] = ipWindows[k]
              \/ /\ ipWindows'[k] = NoRec
                 /\ mapSize(ipWindows, bulk) >= PRUNE_MIN_SIZE
                 /\ ipWindows[k].windowStart < now - 2 * RATE_WINDOW
        /\ \/ bulk' = bulk
           \/ /\ bulk'.n = 0
              /\ mapSize(ipWindows, bulk) >= PRUNE_MIN_SIZE
              /\ bulk.windowStart < now - 2 * RATE_WINDOW]_vars

\* a preflight has deleted the full window of the callers without address
C10_Witness ==
    /\ inflight.pc = "done"
    /\ inflight.r.method = "OPTIONS"
    /\ inflight.resp.status = 204
    /\ ipWindows[hashIp("")] = NoRec
    /\ bulk.n = 0

(***************************************************************************)
(* The token endpoint (/api/token).  Its response is the status, the ok    *)
(* flag and the token of the body (NullToken for token: null and for the   *)
(* bodies without a token).  The nonce is crypto.randomBytes(16) in hex:   *)
(* 32 hex digits, taken here to differ from every nonce issued before.     *)
(***************************************************************************)
TokenResp(status, ok, tok) == [status |-> status, ok |-> ok, token |-> tok]

issueTokenLongLived(key, nonce, t) ==
    Token(nonce, nowSec(t) + TOKEN_TTL_SECONDS + 1,
          hmac(key, payloadOf(nonce, nowSec(t) + TOKEN_TTL_SECONDS + 1)))

issueToken(key, nonce, t) ==
    Token(nonce, nowSec(t) + TOKEN_TTL_SECONDS,
          hmac(key, payloadOf(nonce, nowSec(t) + TOKEN_TTL_SECONDS)))

tokenHandler(method, origin, key, nonce, t) ==
    IF method # "GET" THEN TokenResp(405, "false", NullToken)
    ELSE IF ~(\E o \in ALLOWED_ORIGINS : StartsWith(origin, o)) /\ origin # ""
    THEN TokenResp(403, "false", NullToken)
    ELSE IF key = "" THEN TokenResp(200, "true", NullToken)
    ELSE TokenResp(200, "true", issueToken(key, nonce, t))

Nonces == {Nonce1, Nonce2}

IssuedTokens == {i.resp.token : i \in {j \in issued : j.resp.status = 200}}

TokenEndpoint(method, origin, nonce) ==
    /\ Cardinality(issued) < MaxIssued
    /\ nonce \notin {tok.nonce : tok \in IssuedTokens}
    /\ issued' = issued \cup {[t |-> now, resp |-> tokenHandler(method, origin, secret, nonce, now)]}
    /\ UNCHANGED <<now, rateVars, tokenVars, gateVars, parked, input, output,
                   rejected, failed, admits>>

\* what a client presents: what the endpoint gave it, and tokens of its own making
ClientTokens ==
    IssuedTokens
    \cup {NullToken, Forged(Nonce1, nowSec(T0) + TOKEN_TTL_SECONDS),
          Signed(Nonce2, nowSec(T0) - 1), Signed(ShortNonce, nowSec(T0) + TOKEN_TTL_SECONDS)}

IssueHorizon == T0 + TOKEN_TTL_SECONDS * 1000 + MaxHalfSecs * 500

TickIssue(d) ==
    /\ now + d <= IssueHorizon
    /\ d = 500 => (now - T0) % (TOKEN_TTL_SECONDS * 1000) < MaxHalfSecs * 500
    /\ now' = now + d
    /\ UNCHANGED <<rateVars, tokenVars, gateVars, auxVars>>

InitIssue ==
    /\ now = T0
    /\ ipWindows = [k \in Keys |-> NoRec]
    /\ bulk = [n |-> 0, windowStart |-> T0]
    /\ lastRate = NoCall
    /\ winLog = [k \in Keys |-> << >>]
    /\ secret \in {TheSecret, ""}
    /\ usedNonces = << >>
    /\ accepted = {}
    /\ lastVerify = NoVerify
    /\ apiKey = "sk-live"
    /\ inflight = Idle
    /\ served = 0
    /\ fetchCalls = 0
    /\ upstreamCalls = 0
    /\ issued = {}
    /\ parked = << >>
    /\ input = NoInput
    /\ output = NoOutput
    /\ rejected = {}
    /\ failed = {}
    /\ admits = << >>

NextIssue ==
    \/ \E d \in {500, TOKEN_TTL_SECONDS * 1000} : TickIssue(d)
    \/ \E m \in {"GET", "POST"}, o \in {"https://recept.example", "https://evil.example", ""},
          n \in Nonces : TokenEndpoint(m, o, n)
    \/ \E tok \in ClientTokens : CallVerifyToken(tok)

SpecIssue == InitIssue /\ [][NextIssue]_vars

(***************************************************************************)
(* C11.  Without a signing secret the endpoint answers {ok: true, token:   *)
(* null} and verifyToken returns true for every argument and leaves the    *)
(* ledger empty; with a secret the endpoint never issues a null token.     *)
(***************************************************************************)
C11_SecretlessBypass ==
    /\ secret = "" =>
          /\ usedNonces = << >>
          /\ lastVerify # NoVerify => lastVerify.ok
          /\ \A i \in issued : i.resp.status = 200 => i.resp = TokenResp(200, "true", NullToken)
    /\ secret # "" =>
          \A i \in issued : i.resp.status = 200 =>
              /\ i.resp.ok = "true"
              /\ i.resp.token.shape = "object"
              /\ Len(i.resp.token.nonce) = NONCE_LENGTH

\* without a secret, a malformed token is accepted a second time
C11_Witness ==
    /\ secret = ""
    /\ \E i \in issued : i.resp = TokenResp(200, "true", NullToken)
    /\ lastVerify.tok = Signed(ShortNonce, nowSec(T0) + TOKEN_TTL_SECONDS)
    /\ lastVerify.replay
    /\ lastVerify.ok

(***************************************************************************)
(* C20.  A token the endpoint issued at time t is accepted on its first    *)
(* presentation at time t2 exactly when the second of t2 is not after its  *)
(* exp, the second of t plus 300: at every t2 from t to t + 300 s, and at  *)
(* no t2 from t + 301 s on.                                                *)
(***************************************************************************)
FirstPresentation(i) ==
    /\ secret # ""
    /\ i.resp.status = 200
    /\ lastVerify.tok = i.resp.token
    /\ ~lastVerify.replay
    /\ lastVerify.t >= i.t

\* as the specification states it: rejected at every time after t + 300 s
C20_RejectedRightAfterTtl ==
    \A i \in issued : FirstPresentation(i) =>
        /\ lastVerify.t <= i.t + TOKEN_TTL_SECONDS * 1000 => lastVerify.ok
        /\ lastVerify.t > i.t + TOKEN_TTL_SECONDS * 1000 => ~lastVerify.ok

C20_AcceptedUntilExpSecond ==
    \A i \in issued : FirstPresentation(i) =>
        /\ lastVerify.ok <=> nowSec(lastVerify.t) <= nowSec(i.t) + TOKEN_TTL_SECONDS
        /\ lastVerify.t <= i.t + TOKEN_TTL_SECONDS * 1000 => lastVerify.ok
        /\ lastVerify.t >= i.t + (TOKEN_TTL_SECONDS + 1) * 1000 => ~lastVerify.ok

\* a token accepted half a second after its lifetime
C20_Witness ==
    \E i \in issued :
        /\ FirstPresentation(i)
        /\ lastVerify.t = i.t + TOKEN_TTL_SECONDS * 1000 + 500
        /\ lastVerify.ok

(***************************************************************************)
(* validateRecipe(obj).  A JavaScript value is its type, its string (for a *)
(* string, and the decimal text of a number) and its elements (for an      *)
(* array); a recipe object is the values of its properties, Undefined for  *)
(* a missing one.  An ingredient is an object with string properties (""   *)
(* when missing) or null.  The result is the value returned or the message *)
(* of the Error thrown.                                                    *)
(***************************************************************************)
JsValue(t, str, elems) == [t |-> t, s |-> str, a |-> elems]

Undefined == JsValue("undefined", "", << >>)

Str(x) == JsValue("string", x, << >>)

Num(x) == JsValue("number", ToString(x), << >>)

Arr(x) == JsValue("array", "", x)

\* v || "" then String(...)
StringOr(v) == IF v.t \in {"string", "number"} /\ v.s # "0" THEN v.s ELSE ""

Returned(v) == [kind |-> "return", error |-> "", value |-> v]

Thrown(msg) == [kind |-> "throw", error |-> msg, value |-> Undefined]

Ingredient(g, m, i) == [t |-> "object", grupp |-> g, mangd |-> m, ingrediens |-> i]

NullIngredient == [t |-> "null", grupp |-> "", mangd |-> "", ingrediens |-> ""]

Recipe(titel, ingredienser, steg, rest) ==
    [t |-> "object", titel |-> titel, ingredienser |-> ingredienser, steg |-> steg,
     beskrivning |-> rest.beskrivning, detectedLanguage |-> rest.detectedLanguage,
     noteringar |-> rest.noteringar, meta |-> rest.meta]

NotARecipe(t) ==
    [t |-> t, titel |-> Undefined, ingredienser |-> Undefined, steg |-> Undefined,
     beskrivning |-> Undefined, detectedLanguage |-> Undefined, noteringar |-> Undefined,
     meta |-> [t |-> "undefined", portioner |-> Undefined, totaltid |-> Undefined,
               svarighetsgrad |-> Undefined]]

validateRecipe(obj) ==
    IF obj.t \in {"null", "undefined", "string", "number", "boolean"}
    THEN Thrown("Response is not a recipe object.")
    ELSE IF obj.titel.t \in {"undefined", "null"} THEN Thrown("Recipe missing title.")
    ELSE IF obj.titel.t # "string" THEN Thrown("obj.titel?.trim is not a function")
    ELSE IF trim(obj.titel.s) = "" THEN Thrown("Recipe missing title.")
    ELSE IF obj.ingredienser.t # "array" \/ Len(obj.ingredienser.a) = 0
    THEN Thrown("Recipe missing ingredients.")
    ELSE IF obj.steg.t # "array" \/ Len(obj.steg.a) = 0
    THEN Thrown("Recipe missing steps.")
    ELSE IF \E k \in 1..Len(slice(obj.ingredienser.a, 200)) : obj.ingredienser.a[k].t = "null"
    THEN Thrown("Cannot read properties of null (reading 'grupp')")
    ELSE Returned(
        [titel |-> slice(StringOr(obj.titel), 200),
         beskrivning |-> slice(StringOr(obj.beskrivning), 1000),
         detectedLanguage |-> slice(StringOr(obj.detectedLanguage), 50),
         noteringar |-> slice(StringOr(obj.noteringar), 2000),
         meta |-> [portioner |-> slice(StringOr(obj.meta.portioner), 100),
                   totaltid |-> slice(StringOr(obj.meta.totaltid), 100),
                   svarighetsgrad |-> slice(StringOr(obj.meta.svarighetsgrad), 50)],
         ingredienser |->
             [k \in 1..Len(slice(obj.ingredienser.a, 200)) |->
                 [grupp |-> slice(obj.ingredienser.a[k].grupp, 100),
                  mangd |-> slice(obj.ingredienser.a[k].mangd, 100),
                  ingrediens |-> slice(obj.ingredienser.a[k].ingrediens, 200)]],
         steg |-> [k \in 1..Len(slice(obj.steg.a, 100)) |-> slice(obj.steg.a[k], 2000)]])

(***************************************************************************)
(* The objects validateRecipe is applied to.                               *)
(***************************************************************************)
RECURSIVE Rep(_, _)
Rep(str, n) ==
    IF n = 0 THEN ""
    ELSE IF n % 2 = 0 THEN LET h == Rep(str, n \div 2) IN h \o h
    ELSE str \o Rep(str, n - 1)

Titles ==
    {Undefined, Str(""), Str("   "), Str("Soppa"), Str(" Soppa "), Str("T" \o Rep("x", 200)),
     Num(7)}

IngredientLists ==
    {Undefined, Str("salt"), Arr(<< >>), Arr(<<Ingredient("", "2 dl", "mjolk")>>),
     Arr([k \in 1..201 |-> Ingredient("", ToString(k), "salt")]),
     Arr(<<Ingredient("", "1", "salt"), NullIngredient>>),
     Arr(<<Ingredient(Rep("g", 101), Rep("m", 101), Rep("i", 201))>>)}

StepLists ==
    {Undefined, Arr(<< >>), Arr(<<"Koka.">>), Arr([k \in 1..101 |-> "Steg " \o ToString(k)]),
     Arr(<<Rep("s", 2001)>>)}

NoMeta ==
    [t |-> "undefined", portioner |-> Undefined, totaltid |-> Undefined,
     svarighetsgrad |-> Undefined]

Rests ==
    {[beskrivning |-> Undefined, detectedLanguage |-> Undefined, noteringar |-> Undefined,
      meta |-> NoMeta],
     [beskrivning |-> Str("God soppa"), detectedLanguage |-> Str("engelska"),
      noteringar |-> Str(""),
      meta |-> [t |-> "object", portioner |-> Num(4), totaltid |-> Str("30 min"),
                svarighetsgrad |-> Undefined]],
     [beskrivning |-> Str(Rep("b", 1001)), detectedLanguage |-> Str(Rep("d", 51)),
      noteringar |-> Str(Rep("n", 2001)),
      meta |-> [t |-> "object", portioner |-> Str(Rep("p", 101)),
                totaltid |-> Str(Rep("t", 101)), svarighetsgrad |-> Str(Rep("s", 51))]]}

RecipeObjects ==
    {Recipe(t, i, st, r) : t \in Titles, i \in IngredientLists, st \in StepLists, r \in Rests}
    \cup {NotARecipe(t) : t \in {"null", "string", "number", "array"}}

InitPure(inputs) ==
    /\ now = T0
    /\ ipWindows = [k \in Keys |-> NoRec]
    /\ bulk = [n |-> 0, windowStart |-> T0]
    /\ lastRate = NoCall
    /\ winLog = [k \in Keys |-> << >>]
    /\ secret = TheSecret
    /\ usedNonces = << >>
    /\ accepted = {}
    /\ lastVerify = NoVerify
    /\ apiKey = "sk-live"
    /\ inflight = Idle
    /\ served = 0
    /\ fetchCalls = 0
    /\ upstreamCalls = 0
    /\ issued = {}
    /\ parked = << >>
    /\ input \in inputs
    /\ output = NoOutput
    /\ rejected = {}
    /\ failed = {}
    /\ admits = << >>

InitRecipe == InitPure({[kind |-> "recipe", obj |-> o] : o \in RecipeObjects})

CallValidateRecipe ==
    /\ input.kind = "recipe"
    /\ output = NoOutput
    /\ output' = validateRecipe(input.obj)
    /\ UNCHANGED <<now, rateVars, tokenVars, gateVars, issued, parked, input,
                   rejected, failed, admits>>

NextRecipe == CallValidateRecipe

SpecRecipe == InitRecipe /\ [][NextRecipe]_vars

(***************************************************************************)
(* C12.  validateRecipe names the first of title, ingredients and steps    *)
(* that is empty, each with its own message; what it returns has at most   *)
(* 200 ingredients, the first 200 in their order, at most 100 steps, and   *)
(* no string longer than its bound.                                        *)
(***************************************************************************)
BlankTitle(o) == o.titel.t = "undefined" \/ (o.titel.t = "string" /\ trim(o.titel.s) = "")

GoodTitle(o) == o.titel.t = "string" /\ trim(o.titel.s) # ""

EmptyList(v) == v.t # "array" \/ Len(v.a) = 0

C12_ValidateRecipe ==
    (input.kind = "recipe" /\ output # NoOutput /\ input.obj.t = "object") =>
        LET o == input.obj
            v == output.value
        IN  /\ BlankTitle(o) => output = Thrown("Recipe missing title.")
            /\ GoodTitle(o) /\ EmptyList(o.ingredienser)
                 => output = Thrown("Recipe missing ingredients.")
            /\ GoodTitle(o) /\ ~EmptyList(o.ingredienser) /\ EmptyList(o.steg)
                 => output = Thrown("Recipe missing steps.")
            /\ output.kind = "return" =>
                 /\ GoodTitle(o) /\ ~EmptyList(o.ingredienser) /\ ~EmptyList(o.steg)
                 /\ Len(v.ingredienser) <= 200 /\ Len(v.steg) <= 100
                 /\ Len(o.ingredienser.a) > 200 => Len(v.ingredienser) = 200
                 /\ \A k \in 1..Len(v.ingredienser) :
                       /\ v.ingredienser[k].mangd = slice(o.ingredienser.a[k].mangd, 100)
                       /\ Len(v.ingredienser[k].grupp) <= 100
                       /\ Len(v.ingredienser[k].mangd) <= 100
                       /\ Len(v.ingredienser[k].ingrediens) <= 200
                 /\ \A k \in 1..Len(v.steg) : Len(v.steg[k]) <= 2000
                 /\ Len(v.titel) <= 200 /\ Len(v.beskrivning) <= 1000
                 /\ Len(v.detectedLanguage) <= 50 /\ Len(v.noteringar) <= 2000
                 /\ Len(v.meta.portioner) <= 100 /\ Len(v.meta.totaltid) <= 100
                 /\ Len(v.meta.svarighetsgrad) <= 50

\* 201 ingredients cut to the first 200, with every string over its bound cut
C12_Witness ==
    /\ input.kind = "recipe"
    /\ output.kind = "return"
    /\ Len(input.obj.ingredienser.a) = 201
    /\ Len(output.value.ingredienser) = 200
    /\ output.value.ingredienser[200].mangd = "200"
    /\ Len(input.obj.titel.s) = 201 /\ Len(output.value.titel) = 200
    /\ Len(output.value.noteringar) = 2000

(***************************************************************************)
(* JSON.parse(text), as a recognizer of the JSON grammar: objects, arrays, *)
(* strings without escapes, numbers without exponent, true, false, null,   *)
(* with white space between tokens.  A parse function takes the position   *)
(* of the first character and gives the position after the value, 0 when   *)
(* there is no value there.  The texts presented hold no backslash and no  *)
(* exponent.                                                               *)
(***************************************************************************)
At(s, i) == IF i >= 1 /\ i <= Len(s) THEN SubSeq(s, i, i) ELSE ""

RECURSIVE skipWs(_, _)
skipWs(s, i) == IF At(s, i) \in Blank THEN skipWs(s, i + 1) ELSE i

RECURSIVE skipDigitsAt(_, _)
skipDigitsAt(s, i) == IF At(s, i) \in Digits THEN skipDigitsAt(s, i + 1) ELSE i

parseString(s, i) ==
    LET I == {j \in (i + 1)..Len(s) : At(s, j) \in {"\"", "\\", "\n", "\r", "\t"}}
        j == IF I = {} THEN 0 ELSE CHOOSE k \in I : \A m \in I : k <= m
    IN  IF At(s, i) = "\"" /\ j # 0 /\ At(s, j) = "\"" THEN j + 1 ELSE 0

parseNumber(s, i) ==
    LET d == IF At(s, i) = "-" THEN i + 1 ELSE i
        e == IF At(s, d) = "0" THEN d + 1 ELSE skipDigitsAt(s, d)
        f == IF At(s, e) = "." THEN skipDigitsAt(s, e + 1) ELSE e
    IN  IF e = d \/ (At(s, e) = "." /\ f = e + 1) THEN 0 ELSE f

parseLiteral(s, i) ==
    IF i + 3 <= Len(s) /\ SubSeq(s, i, i + 3) \in {"true", "null"} THEN i + 4
    ELSE IF i + 4 <= Len(s) /\ SubSeq(s, i, i + 4) = "false" THEN i + 5
    ELSE 0

RECURSIVE parseValue(_, _), parseMembers(_, _), parseElements(_, _)
parseValue(s, i) ==
    IF At(s, i) = "{"
    THEN IF At(s, skipWs(s, i + 1)) = "}" THEN skipWs(s, i + 1) + 1
         ELSE parseMembers(s, skipWs(s, i + 1))
    ELSE IF At(s, i) = "["
    THEN IF At(s, skipWs(s, i + 1)) = "]" THEN skipWs(s, i + 1) + 1
         ELSE parseElements(s, skipWs(s, i + 1))
    ELSE IF At(s, i) = "\"" THEN parseString(s, i)
    ELSE IF At(s, i) \in Digits \cup {"-"} THEN parseNumber(s, i)
    ELSE parseLiteral(s, i)

\* "key" : value, then "," and more members, or "}"
parseMembers(s, i) ==
    LET k == parseString(s, i)
        c == skipWs(s, k)
        v == IF k # 0 /\ At(s, c) = ":" THEN parseValue(s, skipWs(s, c + 1)) ELSE 0
        n == skipWs(s, v)
    IN  IF v = 0 THEN 0
        ELSE IF At(s, n) = "}" THEN n + 1
        ELSE IF At(s, n) = "," THEN parseMembers(s, skipWs(s, n + 1))
        ELSE 0

\* value, then "," and more elements, or "]"
parseElements(s, i) ==
    LET v == parseValue(s, i)
        n == skipWs(s, v)
    IN  IF v = 0 THEN 0
        ELSE IF At(s, n) = "]" THEN n + 1
        ELSE IF At(s, n) = "," THEN parseElements(s, skipWs(s, n + 1))
        ELSE 0

\* whether JSON.parse(s) returns rather than throws
parses(s) ==
    LET v == parseValue(s, skipWs(s, 1))
    IN  v # 0 /\ skipWs(s, v) = Len(s) + 1

\* the value JSON.parse(s) returns: its type, with the text it was read from
parsed(s) ==
    LET c == At(trim(s), 1)
    IN  JsValue(IF c = "{" THEN "object" ELSE IF c = "[" THEN "array"
                ELSE IF c = "\"" THEN "string" ELSE IF c = "n" THEN "null"
                ELSE IF c \in {"t", "f"} THEN "boolean" ELSE "number",
                trim(s), << >>)

(***************************************************************************)
(* extractJSON(text)                                                       *)
(***************************************************************************)
\* the first position >= i where sub starts; 0 when there is none
IndexOfFrom(s, sub, i) ==
    LET I == {j \in i..(Len(s) - Len(sub) + 1) : j >= 1 /\ SubSeq(s, j, j + Len(sub) - 1) = sub}
    IN  IF I = {} THEN 0 ELSE CHOOSE j \in I : \A k \in I : j <= k

\* the grave accent (U+0060), which a string of this language cannot hold, is
\* written as an apostrophe; the texts hold no apostrophe of their own
Fence == "'''"

NoMatch == [found |-> FALSE, group |-> ""]

\* text.match of the fence pattern (line 274): the first fence, "json" when it
\* follows, white space, then lazily up to the next fence
fencedMatch(text) ==
    LET p == IndexOfFrom(text, Fence, 1)
        j == IF p + 6 <= Len(text) /\ SubSeq(text, p + 3, p + 6) = "json" THEN p + 7 ELSE p + 3
        w == skipWs(text, j)
        q == IndexOfFrom(text, Fence, w)
    IN  IF p = 0 \/ q = 0 THEN NoMatch
        ELSE [found |-> TRUE, group |-> SubSeq(text, w, q - 1)]

\* text.slice(s, e + 1) of the first "{" and the last "}"; "" when e <= s
braceSpan(text) ==
    LET b == IndexOf(text, "{")
        e == LastIndexOf(text, "}")
    IN  IF b >= 1 /\ e > b THEN SubSeq(text, b, e) ELSE ""

hasBraceSpan(text) == IndexOf(text, "{") >= 1 /\ LastIndexOf(text, "}") > IndexOf(text, "{")

extractJSONObjectsOnly(text) ==
    IF text = "" THEN Thrown("Empty response.")
    ELSE IF hasBraceSpan(text) /\ parses(braceSpan(text)) THEN Returned(parsed(braceSpan(text)))
    ELSE Thrown("Could not parse model response.")

extractJSON(text) ==
    IF text = "" THEN Thrown("Empty response.")
    ELSE IF parses(trim(text)) THEN Returned(parsed(trim(text)))
    ELSE IF fencedMatch(text).found /\ parses(trim(fencedMatch(text).group))
    THEN Returned(parsed(trim(fencedMatch(text).group)))
    ELSE IF hasBraceSpan(text) /\ parses(braceSpan(text)) THEN Returned(parsed(braceSpan(text)))
    ELSE Thrown("Could not parse model response.")

(***************************************************************************)
(* The texts extractJSON is applied to: every text of at most MaxText      *)
(* characters of TextAlphabet, and a JSON value or a broken one between a  *)
(* prefix and a suffix of prose or fence.                                  *)
(***************************************************************************)
MaxText == 3

TextAlphabet == {"{", "}", "[", "]", "\"", ":", ",", "1", "a", " ", "'"}

RECURSIVE TextsUpTo(_)
TextsUpTo(n) ==
    IF n = 0 THEN {""}
    ELSE LET S == TextsUpTo(n - 1) IN S \cup {t \o c : t \in S, c \in TextAlphabet}

Cores ==
    {"{\"a\":1}", "{\"a\": {\"b\": [1, 2]}}", "{}", "[1,2,3]", "42", "\"x\"", "null", "true",
     "{\"a\":1", "\"a\":1}", "{a}", "{\"a\":1,}", "{} {}", "text", "} {"}

Prefixes == {"", "Here is the recipe: ", "'''json\n", "'''\n", "'''", "Sure!\n'''json\n", "''"}

Suffixes == {"", " Enjoy!", "\n'''", "'''", "\n'''\nEnjoy {it}"}

SampleTexts == {p \o c \o x : p \in Prefixes, c \in Cores, x \in Suffixes}

InitExtract ==
    InitPure({[kind |-> "text", obj |-> t] : t \in TextsUpTo(MaxText) \cup SampleTexts})

CallExtractJSON ==
    /\ input.kind = "text"
    /\ output = NoOutput
    /\ output' = extractJSON(input.obj)
    /\ UNCHANGED <<now, rateVars, tokenVars, gateVars, issued, parked, input,
                   rejected, failed, admits>>

NextExtract == CallExtractJSON

SpecExtract == InitExtract /\ [][NextExtract]_vars

(***************************************************************************)
(* C13.  extractJSON returns the first of three candidates that parses:    *)
(* the whole text, the content of the first fenced block, the span from    *)
(* the first "{" to the last "}".  It succeeds on a bare object, on a      *)
(* fenced object with a language tag and on an object within prose.        *)
(***************************************************************************)
\* a "{" with a "}" after it: the innermost such pair is a balanced span
ContainsBalancedSpan(text) ==
    \E i \in 1..Len(text) : \E j \in (i + 1)..Len(text) : At(text, i) = "{" /\ At(text, j) = "}"

\* as the specification states it: no balanced span, no success
C13_FailsWithoutSpan ==
    (input.kind = "text" /\ output # NoOutput /\ ~ContainsBalancedSpan(input.obj))
        => output.kind = "throw"

C13_ExtractJSON ==
    (input.kind = "text" /\ output # NoOutput) =>
        LET t == input.obj
            f == fencedMatch(t)
        IN  /\ parses(trim(t)) => output = Returned(parsed(trim(t)))
            /\ ~parses(trim(t)) /\ f.found /\ parses(trim(f.group))
                 => output = Returned(parsed(trim(f.group)))
            /\ ~parses(trim(t)) /\ ~(f.found /\ parses(trim(f.group)))
                 /\ hasBraceSpan(t) /\ parses(braceSpan(t))
                 => output = Returned(parsed(braceSpan(t)))
            /\ output.kind = "return" =>
                 \/ parses(trim(t))
                 \/ f.found /\ parses(trim(f.group))
                 \/ hasBraceSpan(t) /\ parses(braceSpan(t))
            /\ t = "{\"a\":1}" => output = Returned(JsValue("object", "{\"a\":1}", << >>))
            /\ t = "'''json\n{\"a\":1}\n'''"
                 => output = Returned(JsValue("object", "{\"a\":1}", << >>))
            /\ t = "Here is the recipe: {\"a\":1} Enjoy!"
                 => output = Returned(JsValue("object", "{\"a\":1}", << >>))
            \* without a balanced span, only a value that is not an object
            /\ ~ContainsBalancedSpan(t) /\ output.kind = "return"
                 => output.value.t # "object"

\* the fenced candidate is what succeeds
C13_Witness ==
    /\ input.kind = "text"
    /\ input.obj = "Sure!\n'''json\n{\"a\": {\"b\": [1, 2]}}\n'''\nEnjoy {it}"
    /\ output = Returned(JsValue("object", "{\"a\": {\"b\": [1, 2]}}", << >>))

(***************************************************************************)
(* C14.  A request the rate limiter denies is answered 429, as a returned  *)
(* value, with a Retry-After equal to the seconds left in the window of    *)
(* the caller's fingerprint, rounded down or up.                           *)
(***************************************************************************)
Denied(inv) == inv.pc = "done" /\ inv.rateCalled /\ ~inv.rateOk

RemainingMs(inv) == ipWindows[hashIp(clientIp(inv.r))].windowStart + RATE_WINDOW - now

C14_RetryAfterIsRemaining ==
    Denied(inflight) =>
        /\ inflight.resp.status = 429
        /\ inflight.thrown = ""
        /\ inflight.resp.retryAfter \in {ToString(RemainingMs(inflight) \div 1000),
                                        ToString((RemainingMs(inflight) + 999) \div 1000)}

(***************************************************************************)
(* C15.  A url request whose URL, or whose redirect target, assertSafeUrl  *)
(* refuses is answered 400 with ok false.                                  *)
(***************************************************************************)
SsrfTripped(inv) ==
    /\ inv.pc = "done"
    /\ inv.r.type = "url"
    /\ inv.thrown # ""
    /\ \/ inv.thrown = assertSafeUrl(inv.r.url)
       \/ inv.finalUrl # "" /\ inv.thrown = "Unsafe redirect: " \o assertSafeUrl(inv.finalUrl)

C15_UnsafeUrlIs400 ==
    SsrfTripped(inflight) => inflight.resp.status = 400 /\ inflight.resp.ok = "false"

(***************************************************************************)
(* C19.  The address the handler reads from the request headers is in no   *)
(* line it logs and is no key of the rate map.                             *)
(***************************************************************************)
C19_RawIpNeverLoggedOrKept ==
    (inflight.pc # "idle" /\ clientIp(inflight.r) # "unknown") =>
        /\ \A line \in inflight.log : ~Includes(line, clientIp(inflight.r))
        /\ \A k \in DOMAIN ipWindows : k # clientIp(inflight.r)

(***************************************************************************)
(* The Groq handler (translate.js 628-670; src/unnamed/part_000 has the    *)
(* same url path with English messages).  It reads the method and the      *)
(* body only: no origin, rate or token check.  A url is accepted when it   *)
(* matches /^https?:\/\/.+/ and is handed to fetch as it is; the catch     *)
(* block answers 500 with err.message.                                     *)
(***************************************************************************)
groqCaught(msg) == Fail(500, msg)

GroqThrow(inv, msg) ==
    Done(Logged([inv EXCEPT !.thrown = msg], "[translate-groq] " \o msg), groqCaught(msg))

\* /^https?:\/\/.+/.test(url)
groqUrlOk(url) ==
    \/ StartsWith(url, "http://") /\ Len(url) > 7 /\ At(url, 8) \notin {"\n", "\r"}
    \/ StartsWith(url, "https://") /\ Len(url) > 8 /\ At(url, 9) \notin {"\n", "\r"}

groqValidateInput(r) ==
    IF r.type = "text" THEN
        IF contentLength(r.content) = 0 \/ trimmedLength(r.content) < MIN_TEXT
        THEN Fail(400, "Recepttexten är för kort.")
        ELSE IF contentLength(r.content) > MAX_TEXT
        THEN Fail(400, "Indata för lång (max 60 000 tecken).")
        ELSE NoResp
    ELSE IF r.type = "url" THEN
        IF r.url = "" \/ ~groqUrlOk(r.url) THEN Fail(400, "Ogiltig URL.") ELSE NoResp
    ELSE Fail(400, "type måste vara text eller url")

\* callGroq up to its await
callGroq(inv) ==
    IF apiKey = "" THEN GroqThrow(inv, "GROQ_API_KEY saknas i Netlify-miljövariabler.")
    ELSE [inv EXCEPT !.pc = "mistral", !.upstreams = @ + 1]

\* the handler from its entry to its first await or return
groqEntry(r) ==
    LET inv == Started(r)
    IN  IF r.method # "POST" THEN Done(inv, Fail(405, "Method not allowed"))
        ELSE IF ~r.json THEN Done(inv, Fail(400, "Ogiltig JSON-body"))
        ELSE IF groqValidateInput(r) # NoResp THEN Done(inv, groqValidateInput(r))
        ELSE IF r.type = "url" THEN [inv EXCEPT !.pc = "fetch", !.fetches = @ + 1]
        ELSE callGroq(inv)

\* fetchPageText from the settling of fetch(url) to res.text()
groqFetchSettled(inv, o) ==
    LET i2 == [inv EXCEPT !.finalUrl = o.url]
    IN  IF o.kind # "response" THEN GroqThrow(inv, "fetch failed")
        ELSE IF ~httpOk(o.status)
        THEN GroqThrow(i2, "Kunde inte hämta sidan: HTTP " \o ToString(o.status))
        ELSE [i2 EXCEPT !.pc = "text"]

groqTextSettled(inv, len) ==
    LET i2 == [inv EXCEPT !.textOf = IF inv.finalUrl = "" THEN inv.r.url ELSE inv.finalUrl]
    IN  IF len < 0 THEN GroqThrow(inv, "terminated")
        ELSE IF len < MIN_PAGE_TEXT
        THEN GroqThrow(i2, "Sidan verkar tom eller kunde inte läsas.")
        ELSE callGroq(i2)

groqUpstreamSettled(inv, o) ==
    IF o < 0 THEN GroqThrow(inv, "fetch failed")
    ELSE [inv EXCEPT !.pc = "json", !.upStatus = o]

groqReplyError(kind) ==
    CASE kind = "empty" -> "Tomt svar från Groq."
      [] kind = "prose" -> "Inget giltigt JSON i svaret."
      [] kind = "null" -> "Svaret är inte ett receptobjekt."
      [] kind = "notitle" -> "Receptet saknar titel."
      [] kind = "noingredients" -> "Receptet saknar ingredienser."
      [] kind = "nosteps" -> "Receptet saknar steg."
      [] kind = "numbertitle" -> "obj.titel?.trim is not a function"
      [] OTHER -> ""

\* o: "reject", the error.message of an error body ("" for none), or the kind of reply
groqJsonSettled(inv, o) ==
    IF o = "reject" THEN GroqThrow(inv, "Unexpected token < in JSON at position 0")
    ELSE IF ~httpOk(inv.upStatus) THEN
        IF inv.upStatus = 429
        THEN GroqThrow(inv, "Gratisgränsen nådd tillfälligt. Vänta en minut och försök igen.")
        ELSE GroqThrow(inv, IF o # "" THEN o ELSE "Groq API-fel " \o ToString(inv.upStatus))
    ELSE IF groqReplyError(o) # "" THEN GroqThrow(inv, groqReplyError(o))
    ELSE Done(inv, Resp(200, "true", ""))

GroqUrls ==
    Urls \cup {"http://169.254.169.254/latest/meta-data/", "http://localhost:8080/admin",
               "https://", "ftp://example.com/recipe"}

GroqRequests ==
    {[GoodRequest(NullToken) EXCEPT !.method = m, !.json = j] :
        m \in {"POST", "GET"}, j \in BOOLEAN}
    \cup {[GoodRequest(NullToken) EXCEPT !.content = c] : c \in Texts}
    \cup {[GoodRequest(NullToken) EXCEPT !.type = "url", !.url = u] : u \in GroqUrls}
    \cup {[GoodRequest(NullToken) EXCEPT !.type = "image"]}

GroqFetchOutcomes(url) == {o \in FetchOutcomes(url) : o.kind # "abort"}

GroqUpstreamOutcomes == {0 - 1, 200, 401, 429}

GroqJsonOutcomes(status) ==
    {"reject"} \cup (IF status = 200 THEN ReplyKinds ELSE {"", "Invalid API Key"})

InitGroq ==
    /\ now = T0
    /\ ipWindows = [k \in Keys |-> NoRec]
    /\ bulk = [n |-> 0, windowStart |-> T0]
    /\ lastRate = NoCall
    /\ winLog = [k \in Keys |-> << >>]
    /\ secret = TheSecret
    /\ usedNonces = << >>
    /\ accepted = {}
    /\ lastVerify = NoVerify
    /\ apiKey \in {"gsk-live", ""}
    /\ inflight = Idle
    /\ served = 0
    /\ fetchCalls = 0
    /\ upstreamCalls = 0
    /\ issued = {}
    /\ parked = << >>
    /\ input = NoInput
    /\ output = NoOutput
    /\ rejected = {}
    /\ failed = {}
    /\ admits = << >>

GroqStep(inv) ==
    /\ inflight' = inv
    /\ fetchCalls' = fetchCalls + (inv.fetches - inflight.fetches)
    /\ upstreamCalls' = upstreamCalls + (inv.upstreams - inflight.upstreams)
    /\ UNCHANGED <<now, rateVars, tokenVars, apiKey, auxVars>>

GroqInvoke ==
    /\ inflight.pc = "idle"
    /\ served < MaxRequests
    /\ served' = served + 1
    /\ \E r \in GroqRequests : GroqStep(groqEntry(r))

GroqFetchSettles(o) ==
    inflight.pc = "fetch" /\ GroqStep(groqFetchSettled(inflight, o)) /\ UNCHANGED served

GroqTextSettles(len) ==
    inflight.pc = "text" /\ GroqStep(groqTextSettled(inflight, len)) /\ UNCHANGED served

GroqUpstreamSettles(o) ==
    inflight.pc = "mistral" /\ GroqStep(groqUpstreamSettled(inflight, o)) /\ UNCHANGED served

GroqJsonSettles(o) ==
    inflight.pc = "json" /\ GroqStep(groqJsonSettled(inflight, o)) /\ UNCHANGED served

NextGroq ==
    \/ GroqInvoke
    \/ \E o \in GroqFetchOutcomes(inflight.r.url) : GroqFetchSettles(o)
    \/ \E len \in TextOutcomes : GroqTextSettles(len)
    \/ \E o \in GroqUpstreamOutcomes : GroqUpstreamSettles(o)
    \/ \E o \in GroqJsonOutcomes(inflight.upStatus) : GroqJsonSettles(o)
    \/ Respond

SpecGroq == InitGroq /\ [][NextGroq]_vars

(***************************************************************************)
(* C16.  A handler sends a request to a caller's URL only when             *)
(* assertSafeUrl accepts it, and reads and uses the body of a response     *)
(* only when assertSafeUrl accepts the URL it came from.                   *)
(***************************************************************************)
C16_EveryFetchIsChecked ==
    /\ inflight.fetches > 0 => assertSafeUrl(inflight.r.url) = ""
    /\ inflight.textOf # "" => assertSafeUrl(inflight.textOf) = ""

(***************************************************************************)
(* The gateway under the scheduling its timers give.  The timer of         *)
(* fetchPageText aborts a fetch(url) that has not settled after 10 s and   *)
(* the timer of callMistral one that has not settled after 28 s, so each   *)
(* of the two awaits settles; the runtime resumes a handler whose promise  *)
(* settled.  Both timers are cleared in the finally of the fetch, before   *)
(* res.text() and res.json() are awaited: once the headers have arrived    *)
(* nothing makes the read of the body settle but the other party.          *)
(***************************************************************************)
LiveRequests(t) ==
    {GoodRequest(tok) : tok \in {Fresh(t), Signed(Nonce2, nowSec(t) + TOKEN_TTL_SECONDS)}}
    \cup {[GoodRequest(Fresh(t)) EXCEPT !.type = "url", !.url = u] :
             u \in {"https://example.com/recipe", "https://10.0.0.5/admin"}}

InvokeLive ==
    /\ inflight.pc = "idle"
    /\ served < MaxRequests
    /\ \E r \in LiveRequests(now) : Handler(r)

NextLive ==
    \/ InvokeLive
    \/ \E o \in FetchOutcomes(inflight.r.url) : FetchSettles(o)
    \/ \E len \in TextOutcomes : TextSettles(len)
    \/ \E o \in UpstreamOutcomes : MistralSettles(o)
    \/ \E o \in JsonOutcomes(inflight.upStatus) : JsonSettles(o)
    \/ Respond

SpecLive ==
    /\ InitGateway
    /\ [][NextLive]_vars
    /\ WF_vars(\E o \in FetchOutcomes(inflight.r.url) : FetchSettles(o))
    /\ WF_vars(\E o \in UpstreamOutcomes : MistralSettles(o))
    /\ WF_vars(Respond)

(***************************************************************************)
(* C17.  An invocation suspended at any of its awaits eventually has its   *)
(* response.                                                               *)
(***************************************************************************)
C17_EveryInvocationResponds ==
    (inflight.pc \in {"fetch", "text", "mistral", "json"}) ~> (inflight.pc = "done")

\* what the two timers do give: neither fetch stays pending
FetchAwaitsSettle ==
    (inflight.pc \in {"fetch", "mistral"}) ~> (inflight.pc \notin {"fetch", "mistral"})

(***************************************************************************)
(* Concurrent invocations on one instance.  The runtime runs one handler   *)
(* at a time and switches only where a handler awaits: an invocation       *)
(* suspended at an await is set aside (parked) while another one starts or *)
(* resumes.  From its entry to its first await, and from the settling of   *)
(* one await to the next, a handler runs without interruption: verifyToken *)
(* (75-104) and the handler's lines 416-426 hold no await.                 *)
(***************************************************************************)
ConcRequests(t) ==
    {GoodRequest(tok) : tok \in {Fresh(t), Signed(Nonce2, nowSec(t) + TOKEN_TTL_SECONDS)}}
    \cup {[GoodRequest(Fresh(t)) EXCEPT !.type = "url", !.url = "https://example.com/recipe"],
          [GoodRequest(Fresh(t)) EXCEPT !.xff = "198.51.100.9"]}

InvokeConc ==
    /\ inflight.pc = "idle"
    /\ served < MaxRequests
    /\ \E r \in ConcRequests(now) : Handler(r)

Suspended(inv) == inv.pc \in {"fetch", "text", "mistral", "json"}

Park ==
    /\ Suspended(inflight)
    /\ Len(parked) < MaxParked
    /\ parked' = Append(parked, inflight)
    /\ inflight' = Idle
    /\ UNCHANGED <<now, rateVars, tokenVars, apiKey, served, fetchCalls, upstreamCalls,
                   issued, input, output, rejected, failed, admits>>

Unpark(i) ==
    /\ inflight.pc = "idle"
    /\ i \in 1..Len(parked)
    /\ inflight' = parked[i]
    /\ parked' = SubSeq(parked, 1, i - 1) \o SubSeq(parked, i + 1, Len(parked))
    /\ UNCHANGED <<now, rateVars, tokenVars, apiKey, served, fetchCalls, upstreamCalls,
                   issued, input, output, rejected, failed, admits>>

NextConc ==
    \/ InvokeConc
    \/ \E o \in FetchOutcomes(inflight.r.url) : FetchSettles(o)
    \/ \E len \in TextOutcomes : TextSettles(len)
    \/ \E o \in UpstreamOutcomes : MistralSettles(o)
    \/ \E o \in JsonOutcomes(inflight.upStatus) : JsonSettles(o)
    \/ Respond
    \/ Park
    \/ \E i \in 1..MaxParked : Unpark(i)

SpecConc == InitGateway /\ [][NextConc]_vars

(***************************************************************************)
(* C18.  Of the invocations in flight at one time, whatever the order in   *)
(* which they started and resumed, no two that carry the same token both   *)
(* had verifyToken return true.                                            *)
(***************************************************************************)
InFlight == parked \o (IF inflight.pc = "idle" THEN << >> ELSE <<inflight>>)

C18_SameTokenPassesOnce ==
    \A i \in 1..Len(InFlight) : \A j \in 1..Len(InFlight) :
        (i < j /\ InFlight[i].r.token = InFlight[j].r.token /\ secret # "")
            => ~(InFlight[i].tokOk /\ InFlight[j].tokOk)

\* one invocation waits for the model while a second one with its token is refused
C18_Witness ==
    /\ Len(parked) = 1
    /\ Suspended(parked[1])
    /\ parked[1].tokOk
    /\ inflight.pc = "done"
    /\ inflight.r.token = parked[1].r.token
    /\ inflight.tokCalled
    /\ ~inflight.tokOk
    /\ inflight.resp = Fail(403, "Invalid or expired request token.")

(***************************************************************************)
(* verifyToken with the history of its refusals.  A client presents its    *)
(* genuine token, the same nonce and exp under a guessed signature, tokens *)
(* that are malformed, expired or too far ahead, as the clock advances.    *)
(* rejected holds each refused token with whether its nonce was in the     *)
(* ledger when the call began.                                             *)
(***************************************************************************)
RejectTokens ==
    {Signed(Nonce1, nowSec(T0) + TOKEN_TTL_SECONDS),
     Forged(Nonce1, nowSec(T0) + TOKEN_TTL_SECONDS),
     Signed(Nonce2, nowSec(T0)),
     Signed(Nonce2, nowSec(T0) + VERIFY_MAX_AHEAD + 1),
     Signed(ShortNonce, nowSec(T0) + TOKEN_TTL_SECONDS),
     Token(Nonce1, nowSec(T0) + TOKEN_TTL_SECONDS, ""),
     NullToken}

PresentToken(tok) ==
    LET r == verifyToken(usedNonces, secret, tok, now)
        e == [tok |-> tok, had |-> tok.nonce \in DOMAIN usedNonces]
    IN  /\ r.ok \/ e \in rejected \/ Cardinality(rejected) < MaxRejected
        /\ usedNonces' = r.ledger
        /\ accepted' = IF r.ok THEN accepted \cup {tok} ELSE accepted
        /\ rejected' = IF r.ok THEN rejected ELSE rejected \cup {e}
        /\ lastVerify' = [tok |-> tok, t |-> now, ok |-> r.ok, replay |-> IsReplay(tok),
                          had |-> tok.nonce \in DOMAIN usedNonces]
        /\ UNCHANGED <<now, rateVars, secret, gateVars, issued, parked, input, output, failed,
                       admits>>

NextReject ==
    \/ \E d \in {1, 30} : TickSec(d)
    \/ \E tok \in RejectTokens : PresentToken(tok)

SpecReject == Init /\ [][NextReject]_vars

(***************************************************************************)
(* C21.  A verifyToken call that returns false adds no nonce to the        *)
(* ledger: every entry of the ledger is the nonce of an accepted token, a  *)
(* refused call leaves the presented nonce out unless it was in already,   *)
(* and a genuine token in its validity whose nonce is not in the ledger is *)
(* accepted whatever has been refused before.                              *)
(***************************************************************************)
Genuine(tok) ==
    /\ tok.shape = "object"
    /\ Len(tok.nonce) = NONCE_LENGTH
    /\ tok.sig = hmac(secret, payloadOf(tok.nonce, tok.exp))

C21_RefusalKeepsTheNonce ==
    secret # "" =>
        /\ DOMAIN usedNonces \subseteq {a.nonce : a \in accepted}
        /\ (lastVerify.t >= 0 /\ ~lastVerify.ok /\ ~lastVerify.had)
              => lastVerify.tok.nonce \notin DOMAIN usedNonces
        /\ (lastVerify.t >= 0 /\ Genuine(lastVerify.tok) /\ ~lastVerify.had
              /\ expInRange(lastVerify.tok.exp, lastVerify.t))
              => lastVerify.ok

\* the nonce was refused under a wrong signature, and then its genuine token verified
C21_Witness ==
    /\ secret # ""
    /\ [tok |-> Forged(Nonce1, nowSec(T0) + TOKEN_TTL_SECONDS), had |-> FALSE] \in rejected
    /\ lastVerify.tok = Signed(Nonce1, nowSec(T0) + TOKEN_TTL_SECONDS)
    /\ lastVerify.ok
    /\ ~lastVerify.had
    /\ lastVerify.t > T0

(***************************************************************************)
(* The gateway with the history of the requests that passed verifyToken    *)
(* and were then answered 400 or 500.  The client retries with the token   *)
(* of such a request.  The caller's window may have one admission left.    *)
(***************************************************************************)
InitRetry ==
    /\ now = T0
    /\ ipWindows \in {[k \in Keys |-> IF k = hashIp("203.0.113.7") THEN w ELSE NoRec] :
                         w \in {NoRec, [count |-> RATE_MAX - 1, windowStart |-> T0]}}
    /\ bulk = [n |-> 0, windowStart |-> T0]
    /\ lastRate = NoCall
    /\ winLog = [k \in Keys |-> << >>]
    /\ secret = TheSecret
    /\ usedNonces = << >>
    /\ accepted = {}
    /\ lastVerify = NoVerify
    /\ apiKey \in {"sk-live", ""}
    /\ inflight = Idle
    /\ served = 0
    /\ fetchCalls = 0
    /\ upstreamCalls = 0
    /\ issued = {}
    /\ parked = << >>
    /\ input = NoInput
    /\ output = NoOutput
    /\ rejected = {}
    /\ failed = {}
    /\ admits = << >>

RetryPayloads(tok) ==
    {GoodRequest(tok),
     [GoodRequest(tok) EXCEPT !.content = [pad |-> 0, core |-> 0]],
     [GoodRequest(tok) EXCEPT !.type = "pdf"],
     [GoodRequest(tok) EXCEPT !.type = "url", !.url = "https://example.com/recipe"],
     [GoodRequest(tok) EXCEPT !.type = "url", !.url = "https://10.0.0.5/admin"]}

RetryRequests(t) == UNION {RetryPayloads(tok) : tok \in {Fresh(t)} \cup failed}

InvokeRetry ==
    /\ inflight.pc = "idle"
    /\ served < MaxRequests
    /\ \E r \in RetryRequests(now) : Handler(r)

FailedAfterToken(inv) == inv.pc = "done" /\ inv.tokOk /\ inv.resp.status \in {400, 500}

\* the response is sent; the history keeps the token of a request that failed
RespondRetry ==
    /\ inflight.pc = "done"
    /\ inflight' = Idle
    /\ failed' = IF FailedAfterToken(inflight) THEN failed \cup {inflight.r.token} ELSE failed
    /\ UNCHANGED <<now, rateVars, tokenVars, apiKey, served, fetchCalls, upstreamCalls,
                   issued, parked, input, output, rejected, admits>>

NextRetry ==
    \/ InvokeRetry
    \/ \E o \in FetchOutcomes(inflight.r.url) : FetchSettles(o)
    \/ \E len \in TextOutcomes : TextSettles(len)
    \/ \E o \in UpstreamOutcomes : MistralSettles(o)
    \/ \E o \in JsonOutcomes(inflight.upStatus) : JsonSettles(o)
    \/ RespondRetry
    \/ GatewayTick

SpecRetry == InitRetry /\ [][NextRetry]_vars

(***************************************************************************)
(* C22.  A request that passed verifyToken and was then answered 400 or    *)
(* 500 has its nonce in the ledger, and a later request with its token     *)
(* sends nothing upstream and is answered 403.                             *)
(***************************************************************************)
Retried(inv) == inv.pc = "done" /\ inv.r.token \in failed

Consumed(tok) ==
    tok.nonce \in DOMAIN usedNonces \/ tok.exp + NONCE_BUFFER < nowSec(now)

\* as the specification states it: the retry is always answered 403
C22_RetryIs403 ==
    Retried(inflight) =>
        /\ inflight.resp.status = 403
        /\ inflight.upstreams = 0

\* amended: the retry is answered 403 when it reaches the token check, 429 when
\* the rate limiter denies it first; in neither case does it fetch or call the model
C22_RetryIs403Or429 ==
    /\ FailedAfterToken(inflight) => Consumed(inflight.r.token)
    /\ \A tok \in failed : Consumed(tok)
    /\ Retried(inflight) =>
          /\ inflight.upstreams = 0 /\ inflight.fetches = 0
          /\ inflight.rateOk
                => inflight.tokCalled /\ ~inflight.tokOk
                     /\ inflight.resp = Fail(403, "Invalid or expired request token.")
          /\ ~inflight.rateOk => inflight.resp = rateLimited

\* a request refused at input validation is retried with a good payload and its token
C22_Witness ==
    /\ Retried(inflight)
    /\ inflight.r = GoodRequest(inflight.r.token)
    /\ inflight.resp.status = 403
    /\ upstreamCalls = 0
    /\ apiKey # ""

(***************************************************************************)
(* C23.  Of the POST requests that reach the origin check (JSON content    *)
(* type, body within the size limit), the check answers 403 Forbidden to   *)
(* exactly those with a non-empty Origin where neither Origin nor Referer  *)
(* starts with an allowed origin; the others, among them an empty Origin   *)
(* and an Origin that only has an allowed origin as its prefix, go on to   *)
(* checkRate.                                                              *)
(***************************************************************************)
ReachesOriginCheck(r) ==
    r.method = "POST" /\ ~BadContentType(r) /\ r.bodyLen <= MAX_BODY

NoAllowedPrefix(r) ==
    \A o \in ALLOWED_ORIGINS : ~StartsWith(r.origin, o) /\ ~StartsWith(r.referer, o)

Forbidden(inv) == inv.pc = "done" /\ inv.resp = Fail(403, "Forbidden")

C23_OriginCheckIsPrefixTest ==
    inflight.pc # "idle" =>
        /\ Forbidden(inflight) => ReachesOriginCheck(inflight.r)
        /\ ReachesOriginCheck(inflight.r) =>
              /\ Forbidden(inflight) <=> (inflight.r.origin # "" /\ NoAllowedPrefix(inflight.r))
              /\ ~Forbidden(inflight) => inflight.rateCalled
              /\ Forbidden(inflight) => ~inflight.rateCalled

\* an Origin that continues an allowed origin into another host passes the check
C23_Witness ==
    /\ inflight.pc = "done"
    /\ inflight.r.origin = "https://recept.example.evil.test"
    /\ inflight.r.origin \notin ALLOWED_ORIGINS
    /\ inflight.r.referer = ""
    /\ ReachesOriginCheck(inflight.r)
    /\ inflight.rateCalled
    /\ ~Forbidden(inflight)

(***************************************************************************)
(* checkRate with the history of its admissions.  admits holds the times   *)
(* of the admitted calls of one fingerprint that lie no more than          *)
(* RATE_WINDOW ms before the last of them: the admissions of every         *)
(* interval of that length ending at a call.  Calls of a second            *)
(* fingerprint, each opening a window, and the Background entries bring    *)
(* the map to the size where maybePruneRateMap deletes.                    *)
(***************************************************************************)
SlideIp == "203.0.113.7"

Since(times, t) == SelectSeq(times, LAMBDA x : x >= t)

CallCheckRateLogged(ip) ==
    LET key == hashIp(ip)
        r   == checkRate(ipWindows, ip, now)
    IN  /\ \/ ip = SlideIp /\ ipWindows[key].count < RATE_MAX + MaxOver
           \/ now - ipWindows[key].windowStart > RATE_WINDOW
        /\ ipWindows' = r.map
        /\ lastRate' = [key |-> key, t |-> now, ok |-> r.ok,
                        before |-> ipWindows[key], after |-> r.map[key]]
        /\ admits' = IF ip = SlideIp /\ r.ok
                     THEN Append(Since(admits, now - RATE_WINDOW), now) ELSE admits
        /\ UNCHANGED <<now, bulk, winLog, tokenVars, gateVars, issued, parked, input, output,
                       rejected, failed>>

NextSlide ==
    \/ TickMs
    \/ TickWindow
    \/ \E ip \in RateIps : CallCheckRateLogged(ip)
    \/ CallMaybePrune

SpecSlide == Init /\ [][NextSlide]_vars

(***************************************************************************)
(* C24.  No interval of RATE_WINDOW ms holds more than 2 * RATE_MAX        *)
(* admissions of one fingerprint, and a denied call increments the count   *)
(* of a window that started no more than RATE_WINDOW ms before, without    *)
(* moving its start.                                                       *)
(***************************************************************************)
C24_AtMostTwiceMaxPerInterval ==
    /\ Len(admits) <= 2 * RATE_MAX
    /\ \A i \in 1..Len(admits) : admits[Len(admits)] - admits[i] <= RATE_WINDOW
    /\ (lastRate.t >= 0 /\ ~lastRate.ok) =>
          /\ lastRate.before # NoRec
          /\ lastRate.after.windowStart = lastRate.before.windowStart
          /\ lastRate.after.count = lastRate.before.count + 1
          /\ lastRate.t - lastRate.before.windowStart <= RATE_WINDOW

\* the last seven admissions of one window and the eight of the next within
\* RATE_WINDOW ms
C24_Witness ==
    /\ Len(admits) = 2 * RATE_MAX - 1
    /\ admits[Len(admits)] - admits[1] = RATE_WINDOW
    /\ lastRate.ok
    /\ lastRate.key = hashIp(SlideIp)
    /\ lastRate.after.count = RATE_MAX

====
